---- MODULE Spec2Model ----
(***************************************************************************)
(* Model of the webinar sync pipeline:                                     *)
(*   supabase/functions/zoom-sync-webinars-v2/index.ts  (queue-based sync) *)
(* The durable store (zoom_sync_logs, sync_state, webinar_sync_queue,      *)
(* zoom_webinars, sync_progress_updates) is the shared state; one          *)
(* orchestrator invocation is a sequence of steps, one per awaited store   *)
(* or remote call, so that a host termination can fall between any two.    *)
(***************************************************************************)
EXTENDS Integers, Sequences, FiniteSets, TLC

\* ------------------------------------------------------------------ bounds

\* Spec: requests served one after the other (fresh or resuming); failures
\* the environment injects in one behaviour (a remote, store or sink call
\* that fails, a resumeSyncId that names no run); pages of one listing after
\* which the remote returns no further token; webinars the remote lists to
\* one invocation, over both listings.
MaxInvocations == 2
MaxFaults == 1
MaxPages == 1
MaxItems == 2
\* SpecLogs: requests to the two functions together, and the failures injected.
MaxLogInvocations == 2
MaxLogFaults == 1
\* SpecLimiter: operations started through one limiter, and the operations
\* among them that raise (a 429 or another error).
MaxCalls == 4
MaxLimiterFaults == 1
\* SpecBurst: operations one caller issues back to back.
MaxBurst == 5
\* SpecRetry: attempts of one caller, and the attempts answered 429.
MaxAttempts == 5
MaxRetryFaults == 3
\* SpecDrain: the rows a request finds queued, and the failures injected.
MaxQueued == 3
MaxPairQueued == 1
MaxBatchPages == 11
MaxLiveFaults == 1
MaxLivePages == 2
MaxLiveItems == 2
MaxBatchItems == 51
MaxBatchFaults == 1
MaxPairFaults == 1
MaxDrainFaults == 1
\* SpecList: a single request against a remote whose listings run to many
\* pages; the failures injected.
MaxListPages == 11
MaxListFaults == 1
\* SpecAux: the failures injected into a single request for one webinar.
MaxAuxFaults == 4
\* SpecRun: a single request, with more failures and longer listings.
MaxRunFaults == 2
MaxRunPages == 2
MaxRunItems == 3

\* Remote webinar ids, and the pages a list call may return.
WebinarIds == {1, 2}
PastPages == {<<>>, <<1>>}
UpcomingPages == {<<>>, <<1>>, <<2>>}
\* Connections a request may name ("" is a request without connectionId).
Connections == {"c1", "c2"}
\* A run id that no sync log carries (a resumeSyncId matching nothing).
GhostSyncId == MaxInvocations + 1

\* Outcomes of one HTTP exchange with the remote API: a 2xx response, a 429
\* response, another non-2xx response, or fetch() rejecting (network error).
HttpOutcomes == {"ok", "http429", "http500", "neterr"}

\* Detail payloads the remote may answer with: start_time is an instant of the
\* model clock (0: absent), status the remote-reported status ("": absent).
StartTimes == {-1, 0, 1, 5, 9}
Nows == {1, 5}
ApiStatuses == {"", "waiting", "started", "finished", "scheduled", "xyz"}

\* ------------------------------------------------------------------ state

VARIABLES
  syncLogs,    \* zoom_sync_logs: row i is the SyncRun with id i
  syncState,   \* sync_state rows
  queue,       \* webinar_sync_queue: row i is the WorkItem with id i
  webinars,    \* zoom_webinars rows
  progress,    \* sync_progress_updates rows, in insertion order
  orch,        \* the orchestrator invocation's local variables
  clock,       \* Date.now() of the store, one tick per invocation
  faults,      \* failures injected so far
  limits,      \* the requests and failures this behaviour is bounded to
  limiter,     \* one RateLimitManager instance, and Date.now()
  callers,     \* the executeWithRateLimit calls in progress on it
  issued,      \* the instants at which the limited operations were started
  statusCase,  \* one application of determineWebinarStatus
  fieldCase,   \* one application of a fallback chain of the webinarData mapping
  batch        \* the older batch sync invocation's local variables

vars == <<syncLogs, syncState, queue, webinars, progress, orch, clock, faults, limits,
          limiter, callers, issued, statusCase, fieldCase, batch>>

storeVars == <<syncLogs, syncState, queue, webinars, progress>>

\* What the handler's steps leave alone: the limiter and the status case are
\* studied on their own (SpecLimiter, SpecStatus), and the older batch sync
\* is another function.
unitVars == <<limiter, callers, issued, statusCase, fieldCase, batch>>

handlerVars == <<syncLogs, syncState, queue, webinars, progress, orch, clock, faults>>

\* ------------------------------------------------------- pure definitions

Range(s) == {s[i] : i \in 1..Len(s)}

\* Array.prototype.includes on the literal list of line 255.
validStatuses == {"waiting", "started", "finished", "scheduled"}

\* new Date(start_time) < now: an unparseable start_time (here a negative
\* number) gives Invalid Date, which compares false with every date.
IsValidDate(t) == t >= 0

\* A variant that trusts the remote's status before the kind and the timing.
determineWebinarStatusApiFirst(webinarDetails, webinarType, now) ==
  IF webinarDetails.status # "" /\ webinarDetails.status \in validStatuses
  THEN webinarDetails.status
  ELSE IF webinarType = "past" THEN "finished"
  ELSE IF /\ webinarDetails.start_time # 0
          /\ IsValidDate(webinarDetails.start_time)
          /\ webinarDetails.start_time < now
       THEN "finished"
  ELSE "scheduled"

\* determineWebinarStatus(webinarDetails, webinarType), now = new Date().
\* start_time 0 and status "" are the falsy (absent) values.
determineWebinarStatus(webinarDetails, webinarType, now) ==
  IF webinarType = "past" THEN "finished"
  ELSE IF /\ webinarDetails.start_time # 0
          /\ IsValidDate(webinarDetails.start_time)
          /\ webinarDetails.start_time < now
       THEN "finished"
  ELSE IF webinarDetails.status # "" /\ webinarDetails.status \in validStatuses
       THEN webinarDetails.status
  ELSE "scheduled"

\* ---------------------------------------------------- remote API client

\* What reaches the caller of fn() for one HTTP exchange of fetchWebinarList /
\* fetchWebinarDetails: the parsed body, or a thrown Error.  `new Error(...)`
\* and fetch()'s TypeError carry no `status` property (status 0 here).
fetchWebinarList(http, page, token) ==
  IF http = "ok"
  THEN [kind |-> "value", webinars |-> page, nextPageToken |-> token,
        status |-> 0, message |-> ""]
  ELSE [kind |-> "throw", webinars |-> <<>>, nextPageToken |-> FALSE,
        status |-> 0,
        message |-> IF http = "neterr" THEN "fetch failed"
                    ELSE "Failed to fetch webinar list"]

\* A variant of fetchWebinarDetails that hands a non-2xx answer to its caller
\* as a value.
fetchWebinarDetailsTolerant(http, payload) ==
  [kind |-> "value", data |-> payload, status |-> 0, message |-> ""]

fetchWebinarDetails(http, payload) ==
  IF http = "ok"
  THEN [kind |-> "value", data |-> payload, status |-> 0, message |-> ""]
  ELSE [kind |-> "throw", data |-> payload, status |-> 0,
        message |-> IF http = "neterr" THEN "fetch failed"
                    ELSE "Failed to fetch webinar details"]

\* executeWithRateLimit's catch: only an error whose status is 429 is waited
\* for and retried; anything else is rethrown to the caller.
RetriedByLimiter(outcome) == outcome.kind = "throw" /\ outcome.status = 429

\* fetchRegistrantCount: the fetch is the limited operation; a non-2xx
\* response and a thrown error both yield 0.
fetchRegistrantCount(http) == IF http = "ok" THEN 3 ELSE 0

\* fetchParticipantData
fetchParticipantData(http) ==
  IF http = "ok" THEN [count |-> 7, avgDuration |-> 40]
  ELSE [count |-> 0, avgDuration |-> 0]

\* The three inline list fetches (tracking sources, polls, Q&A), by the shape
\* of the property they leave in additionalData: the remote's list ("items"),
\* [] after a non-2xx response ("empty"), or no property at all when the
\* limited operation throws and the catch only logs ("unset").
fetchListField(http) ==
  IF http = "ok" THEN "items"
  ELSE IF http = "neterr" THEN "unset"
  ELSE "empty"

\* fetchAdditionalWebinarData(type).  o is the outcome of each exchange; a
\* property that the type's branch never assigns is "unset" (a count: -1).
fetchAdditionalWebinarData(type, o) ==
  [registrantCount |-> fetchRegistrantCount(o.registrants),
   participantCount |->
     IF type = "past" THEN fetchParticipantData(o.participants).count ELSE -1,
   avgAttendanceDuration |->
     IF type = "past" THEN fetchParticipantData(o.participants).avgDuration ELSE -1,
   trackingSources |->
     IF type = "upcoming" THEN fetchListField(o.tracking) ELSE "unset",
   polls |-> IF type = "past" THEN fetchListField(o.polls) ELSE "unset",
   qa |-> IF type = "past" THEN fetchListField(o.qa) ELSE "unset"]

\* The exchanges fetchAdditionalWebinarData makes for a type; the others are
\* not made and are fixed to "ok" in the outcome record.
AuxOutcomes(type, allowed) ==
  {o \in [registrants : allowed, participants : allowed, tracking : allowed,
          polls : allowed, qa : allowed] :
     IF type = "past" THEN o.tracking = "ok"
     ELSE o.participants = "ok" /\ o.polls = "ok" /\ o.qa = "ok"}

\* A variant in which a failed exchange of the enrichment is not caught.
fetchAdditionalRejectsUncaught(type, o) ==
  \E f \in {"registrants", "participants", "tracking", "polls", "qa"} : o[f] = "neterr"

\* Whether fetchAdditionalWebinarData rejects: every exchange it awaits is
\* inside a try/catch that only logs (lines 315-339, 349-387, 413-430,
\* 435-452, 454-471), so no outcome of the exchanges leaves it as an error.
fetchAdditionalRejects(type, o) == FALSE

AuxFaults(o) ==
  Cardinality({f \in {"registrants", "participants", "tracking", "polls", "qa"} :
                 o[f] # "ok"})

\* ------------------------------------------------------------ the store

\* sync_progress_updates.insert inside broadcastProgress's try/catch: a failed
\* insert is logged and the row is lost.  pct is <<numerator, denominator>>,
\* <<0, 0>> when the call passes no percentage.
broadcastProgress(log, syncId, type, pct, ok) ==
  IF ok THEN Append(log, [sync_id |-> syncId, update_type |-> type, pct |-> pct])
  ELSE log

NoPct == <<0, 0>>
Pct(n) == <<n, 1>>

\* zoom_webinars.upsert(row, {onConflict: 'webinar_id,connection_id'}): the
\* conflicting row is replaced in place, otherwise the row is appended.
SameKey(a, b) == a.webinar_id = b.webinar_id /\ a.connection_id = b.connection_id

\* A variant without the conflict target: a plain insert.
insertWebinar(rows, row) == Append(rows, row)

upsertWebinar(rows, row) ==
  IF \E i \in 1..Len(rows) : SameKey(rows[i], row)
  THEN [i \in 1..Len(rows) |-> IF SameKey(rows[i], row) THEN row ELSE rows[i]]
  ELSE Append(rows, row)

\* sync_state.upsert(row): one row per sync_id.
upsertSyncState(rows, row) ==
  IF \E i \in 1..Len(rows) : rows[i].sync_id = row.sync_id
  THEN [i \in 1..Len(rows) |-> IF rows[i].sync_id = row.sync_id THEN row ELSE rows[i]]
  ELSE Append(rows, row)

\* sync_state.update({processed_items}).eq('sync_id', syncId)
updateSyncState(rows, syncId, processed) ==
  [i \in 1..Len(rows) |->
     IF rows[i].sync_id = syncId
     THEN [rows[i] EXCEPT !.processed_items = processed]
     ELSE rows[i]]

\* webinar_sync_queue.insert(queueItems): ids follow the table's sequence.
queueItems(allWebinars, syncId, now, base) ==
  [i \in 1..Len(allWebinars) |->
     [id |-> base + i,
      sync_id |-> syncId,
      webinar_id |-> allWebinars[i].webinar_id,
      webinar_type |-> allWebinars[i].webinar_type,
      priority |-> 5,
      scheduled_at |-> now,
      processing_status |-> "pending",
      retry_count |-> 0,
      error_message |-> ""]]

\* .eq('sync_id', syncId).eq('processing_status', 'pending')
PendingIds(rows, syncId) ==
  {i \in 1..Len(rows) :
     rows[i].sync_id = syncId /\ rows[i].processing_status = "pending"}

\* .order('priority', {ascending: false}).order('scheduled_at', {ascending: true})
\* a precedes b, or the two tie.
\* A variant with scheduled_at descending.
OrderedBeforeLatestFirst(a, b) ==
  \/ a.priority > b.priority
  \/ a.priority = b.priority /\ a.scheduled_at >= b.scheduled_at

OrderedBefore(a, b) ==
  \/ a.priority > b.priority
  \/ a.priority = b.priority /\ a.scheduled_at <= b.scheduled_at

IsOrdered(s) == \A i, j \in 1..Len(s) : i < j => OrderedBefore(s[i], s[j])

RECURSIVE Perms(_)
Perms(S) ==
  IF S = {} THEN {<<>>}
  ELSE UNION {{<<x>> \o t : t \in Perms(S \ {x})} : x \in S}

\* The results the select may return: every arrangement of the pending rows
\* the ORDER BY allows (rows that tie come in any order).
selectPending(rows, syncId) ==
  {s \in {[i \in 1..Len(t) |-> rows[t[i]]] : t \in Perms(PendingIds(rows, syncId))} :
     IsOrdered(s)}

\* webinar_sync_queue.update(fields).eq('id', id)
markQueueItem(rows, id, status, retry, msg) ==
  [rows EXCEPT ![id] = [@ EXCEPT !.processing_status = status,
                                 !.retry_count = retry,
                                 !.error_message = msg]]

\* A variant in which the update of the sync log is lost.
completeSyncLogLost(rows, syncId, n) == rows

\* zoom_sync_logs.update({status: 'completed', webinars_synced}).eq('id', syncId)
completeSyncLog(rows, syncId, n) ==
  [i \in 1..Len(rows) |->
     IF i = syncId
     THEN [rows[i] EXCEPT !.status = "completed", !.webinars_synced = n]
     ELSE rows[i]]

\* ----------------------------------------------------------- rate limiter

MAX_CALLS_PER_MINUTE == 30
MAX_CALLS_PER_SECOND == 2

Callers == {1, 2}

\* new RateLimitManager() at instant 0.
NewLimiter ==
  [now |-> 0, callsPerMinute |-> 0, callsPerSecond |-> 0,
   windowStart |-> 0, secondWindowStart |-> 0, retryAfter |-> 0]

\* A caller outside executeWithRateLimit.  wake is the instant a pending
\* setTimeout or the running operation is due, t0 the `now` that
\* waitForRateLimit read at line 63, result what the last call returned.
IdleCaller == [pc |-> "idle", wake |-> 0, t0 |-> 0, retry |-> 0, result |-> ""]

NoStatusCase ==
  [webinarDetails |-> [id |-> 0, start_time |-> 0, status |-> ""],
   webinarType |-> "past", now |-> 0, result |-> ""]

\* ------------------------------------- webinarData: the fallback chains

\* JavaScript values, written as their literals.  a || b is b when a is falsy.
Falsy == {"undefined", "null", "false", "0", "''"}
orElse(a, b) == IF a \in Falsy THEN b ELSE a

\* A variant of a || b that takes b only when a is undefined or null (a ?? b).
orElseNullish(a, b) == IF a \in {"undefined", "null"} THEN b ELSE a

\* Lines 546-547, 555-556, 573 and 585: the fields read from settings, from
\* the payload's top level, and the literal the chain ends with.
FieldChains ==
  [max_registrants |-> [nested |-> "registrants_restrict_number",
                        top |-> "max_registrants", default |-> "null"],
   max_attendees |-> [nested |-> "max_attendees", top |-> "max_attendees",
                      default |-> "null"],
   audio |-> [nested |-> "audio", top |-> "audio", default |-> "'both'"],
   auto_recording |-> [nested |-> "auto_recording", top |-> "auto_recording",
                       default |-> "'none'"],
   survey_url |-> [nested |-> "survey_url", top |-> "survey_url", default |-> "null"],
   contact_name |-> [nested |-> "contact_name", top |-> "contact_name",
                     default |-> "null"]]

\* The values the remote may send for a field ("undefined": the payload does
\* not carry it).
FieldValues(field) ==
  IF field \in {"max_registrants", "max_attendees"} THEN {"undefined", "0", "100"}
  ELSE IF field \in {"audio", "auto_recording"} THEN {"undefined", "''", "'voip'"}
  ELSE {"undefined", "null", "''", "'x'"}

\* webinarDetails.settings?.f: undefined when the payload has no settings.
optional(hasSettings, value) == IF hasSettings THEN value ELSE "undefined"

\* webinarDetails.settings?.f || webinarDetails.g || literal
mapField(field, hasSettings, nested, top) ==
  orElse(orElse(optional(hasSettings, nested), top), FieldChains[field].default)

NoFieldCase ==
  [field |-> "", hasSettings |-> FALSE, nested |-> "undefined", top |-> "undefined",
   result |-> "unmapped"]

\* ------------------------------------------------- orchestrator: locals

\* The instances of the function the host may run side by side; limits.instances
\* of them take requests.
Procs == {1, 2}

NoDetails == [id |-> 0, start_time |-> 0, status |-> ""]
NoAdditional ==
  [registrantCount |-> -1, participantCount |-> -1, avgAttendanceDuration |-> -1,
   trackingSources |-> "unset", polls |-> "unset", qa |-> "unset"]
\* A response: the HTTP status, the properties the JSON body has (fields) and
\* their values; success is the truth value a client reads from the body, an
\* absent property reading as false.
NoResponse == [status |-> 0, fields |-> {}, success |-> FALSE, syncId |-> 0,
               webinarsSynced |-> 0, error |-> ""]

\* The handler's local variables before a request arrives.  Besides the locals
\* of the code: http is the outcome of the last list or detail exchange,
\* listCalls the number of list exchanges, marked the queue rows marked as
\* processing, detailCalls the rows whose details were requested, thrown the
\* rows whose processWebinar threw, auxFailed the rows some of whose
\* enrichment exchanges failed (with how many), published the last event handed to
\* broadcastProgress and whether the sink stored it, sinkFailed the number of
\* events the sink did not store.
IdleOrch ==
  [pc |-> "idle",
   connectionId |-> "", resumeSyncId |-> 0, syncId |-> 0,
   allWebinars |-> <<>>, nextPageToken |-> FALSE, pageCount |-> 0,
   queuedItems |-> <<>>, idx |-> 0, processedCount |-> 0, failedCount |-> 0,
   webinarDetails |-> NoDetails, additionalData |-> NoAdditional, error |-> "",
   http |-> "", listCalls |-> 0, marked |-> <<>>, detailCalls |-> <<>>, thrown |-> {},
   auxFailed |-> {}, sinkFailed |-> 0,
   published |-> [update_type |-> "", pct |-> <<0, 0>>, stored |-> FALSE],
   response |-> NoResponse]

\* The outer catch of the handler: a 500 response whose body is { error } and
\* nothing else.
errorResponse(msg) ==
  [status |-> 500, fields |-> {"error"}, success |-> FALSE, syncId |-> 0,
   webinarsSynced |-> 0, error |-> msg]

\* ---------------------- the older batch sync (zoom-sync-webinars): the service

batchSize == 50

\* An EdgeFunctionError; a plain Error or TypeError has no statusCode (0).
EdgeFunctionError(message, statusCode) == [message |-> message, statusCode |-> statusCode]
NoError == EdgeFunctionError("", 0)

\* formatErrorResponse, as the outer catch uses its result.
formatErrorResponse(error) == [error |-> error.message, statusCode |-> error.statusCode]

\* The batch handler's local variables before a request arrives; i is the
\* index of saveWebinars' loop.
IdleBatch ==
  [pc |-> "idle", connectionId |-> "", syncLogId |-> 0, allWebinars |-> <<>>,
   nextPageToken |-> FALSE, pageCount |-> 0, totalWebinars |-> 0, i |-> 0,
   processedCount |-> 0, error |-> NoError, response |-> NoResponse]

\* createSyncLog, lines 29-36: the row inserted into zoom_sync_logs.
createSyncLog(rows, connectionId) ==
  Append(rows, [connection_id |-> connectionId, status |-> "in_progress",
                webinars_synced |-> 0, total_items |-> 0, processed_items |-> 0,
                error_message |-> ""])

\* Line 252: zoom_sync_logs.update({ total_items }).eq('id', syncLogId)
updateTotalItems(rows, syncLogId, total) ==
  [k \in 1..Len(rows) |->
     IF k = syncLogId THEN [rows[k] EXCEPT !.total_items = total] ELSE rows[k]]

\* updateSyncProgress, lines 127-131.
updateSyncProgress(rows, syncLogId, processedItems) ==
  [k \in 1..Len(rows) |->
     IF k = syncLogId THEN [rows[k] EXCEPT !.processed_items = processedItems]
     ELSE rows[k]]

\* ZoomWebinarSyncService.completeSyncLog, lines 133-144: status and
\* processed_items are written, error_message only when an error is given.
serviceCompleteSyncLog(rows, syncLogId, totalItems, status, error) ==
  [k \in 1..Len(rows) |->
     IF k = syncLogId
     THEN [rows[k] EXCEPT !.status = status, !.processed_items = totalItems,
                          !.error_message = IF error # "" THEN error ELSE @]
     ELSE rows[k]]

\* mapWebinarStatus, lines 146-158 (duration in the unit of the clock).
mapWebinarStatus(webinar, now) ==
  IF now < webinar.start_time THEN "scheduled"
  ELSE IF now <= webinar.start_time + webinar.duration THEN "started"
  ELSE "finished"

\* The webinar with id i of the remote account, as a list page carries it.
RemoteWebinar(i) ==
  [id |-> i, start_time |-> IF i % 2 = 1 THEN 1 ELSE 9, duration |-> 1]

\* saveWebinars, lines 96-111: the row built for a listed webinar; the columns
\* the batch sync does not write keep their default.
batchRow(webinar, connectionId, now) ==
  [webinar_id |-> webinar.id,
   connection_id |-> connectionId,
   status |-> mapWebinarStatus(webinar, now),
   start_time |-> webinar.start_time,
   additional_data |-> NoAdditional,
   raw_response |-> NoDetails,
   synced_at |-> 0,
   participant_sync_status |-> ""]

\* saveWebinars, lines 113-116: zoom_webinars.upsert(rows, {onConflict:
\* 'connection_id,webinar_id'}): a conflicting row gets the columns written,
\* the other rows of the batch are appended in order.
upsertBatch(rows, group, connectionId, now) ==
  LET new(k) == batchRow(group[k], connectionId, now)
      hit(r) == {k \in 1..Len(group) : SameKey(r, new(k))}
      known(w) == \E j \in 1..Len(rows) :
                    SameKey(rows[j], batchRow(w, connectionId, now))
      fresh == SelectSeq(group, LAMBDA w : ~known(w))
  IN [j \in 1..Len(rows) |->
        IF hit(rows[j]) # {}
        THEN LET k == CHOOSE k \in hit(rows[j]) : TRUE
             IN [rows[j] EXCEPT !.status = new(k).status,
                                !.start_time = new(k).start_time]
        ELSE rows[j]]
     \o [k \in 1..Len(fresh) |-> batchRow(fresh[k], connectionId, now)]

\* webinars.slice(i, i + batchSize)
slice(seq, from, to) ==
  [k \in 1..((IF to < Len(seq) THEN to ELSE Len(seq)) - from) |-> seq[from + k]]

\* The failures the environment may still inject.
MayFail == faults < limits.faults
StoreOutcomes == IF MayFail THEN BOOLEAN ELSE {TRUE}
RemoteOutcomes == IF MayFail THEN HttpOutcomes ELSE {"ok"}
Cost(ok) == IF ok THEN 0 ELSE 1

Init ==
  /\ syncLogs = <<>>
  /\ syncState = <<>>
  /\ queue = <<>>
  /\ webinars = <<>>
  /\ progress = <<>>
  /\ orch = [p \in Procs |-> IdleOrch]
  /\ clock = 0
  /\ faults = 0
  /\ limits = [calls |-> 0, invocations |-> MaxInvocations, faults |-> MaxFaults,
               pages |-> MaxPages, items |-> MaxItems, instances |-> 1]
  /\ limiter = NewLimiter
  /\ callers = [c \in Callers |-> IdleCaller]
  /\ issued = <<>>
  /\ statusCase = NoStatusCase
  /\ fieldCase = NoFieldCase
  /\ batch = IdleBatch

\* ---------------------------------------------- orchestrator: the handler

\* A variant without the check of line 727: a request without connectionId
\* goes on like any other.
StartUnvalidated(p) ==
  /\ orch[p].pc \in {"idle", "done"}
  /\ p <= limits.instances
  /\ clock < limits.invocations
  /\ \E c \in {""} \cup {x \in Connections : x = "c1" \/ clock >= 1},
        r \in {0} \cup (1..Len(syncLogs)) \cup (IF MayFail THEN {GhostSyncId} ELSE {}) :
       /\ c = "" => r = 0
       /\ orch' = [orch EXCEPT ![p] =
                     [IdleOrch EXCEPT !.pc = "init", !.connectionId = c,
                        !.resumeSyncId = r, !.syncId = r]]
       /\ faults' = faults + (IF r = GhostSyncId THEN 1 ELSE 0)
  /\ clock' = clock + 1
  /\ UNCHANGED <<storeVars, limits, unitVars>>

\* Lines 707-729: the request is parsed and validated.  resumeSyncId 0 is a
\* request without one; a resumeSyncId that names no run is counted among the
\* injected failures.  The connections are interchangeable: the first request
\* is for "c1".
Start(p) ==
  /\ orch[p].pc \in {"idle", "done"}
  /\ p <= limits.instances
  /\ clock < limits.invocations
  /\ \E c \in {""} \cup {x \in Connections : x = "c1" \/ clock >= 1},
        r \in {0} \cup (1..Len(syncLogs)) \cup (IF MayFail THEN {GhostSyncId} ELSE {}) :
       /\ c = "" => r = 0
       /\ orch' = [orch EXCEPT ![p] =
                     IF c = ""
                     THEN [IdleOrch EXCEPT !.pc = "done",
                             !.response = errorResponse("Connection ID is required")]
                     ELSE [IdleOrch EXCEPT !.pc = "init", !.connectionId = c,
                             !.resumeSyncId = r, !.syncId = r]]
       /\ faults' = faults + (IF r = GhostSyncId THEN 1 ELSE 0)
  /\ clock' = clock + 1
  /\ UNCHANGED <<storeVars, limits, unitVars>>

\* The event a broadcastProgress call hands to the sink.
Event(type, pct, ok) == [update_type |-> type, pct |-> pct, stored |-> ok]
NoEvent == Event("", NoPct, FALSE)

\* The locals o with the event of a broadcastProgress call recorded.
Published(o, type, pct, ok) ==
  [o EXCEPT !.published = Event(type, pct, ok), !.sinkFailed = @ + Cost(ok)]

\* Lines 1001-1014: the outer catch answers 500 with the message.
outerCatch(o, msg) == [o EXCEPT !.pc = "done", !.response = errorResponse(msg)]

\* A variant of afterBroadcast in which a failed insert rejects the call.
afterBroadcastRejecting(o, ok, caught) == IF ok THEN o ELSE caught

\* Lines 109-119: the caller's locals after an awaited broadcastProgress call.
\* The insert sits in a try/catch that only logs, so the caller goes on with o
\* whatever the sink did; caught is where a rejection would have taken it.
afterBroadcast(o, ok, caught) == o

SinkError == "Failed to broadcast progress"

\* Lines 738-750: resume an existing sync.  The sync_state row is looked up
\* and, when there is one, 'Resuming sync...' is broadcast; the handler then
\* goes on to line 752 with syncId = resumeSyncId.
ResumeSync(p) ==
  /\ orch[p].pc = "init"
  /\ orch[p].resumeSyncId # 0
  /\ LET existingState ==
           \E i \in 1..Len(syncState) : syncState[i].sync_id = orch[p].resumeSyncId
     IN \E sink \in (IF existingState THEN StoreOutcomes ELSE {TRUE}) :
          /\ progress' = IF existingState
                         THEN broadcastProgress(progress, orch[p].syncId, "status",
                                                NoPct, sink)
                         ELSE progress
          /\ faults' = faults + Cost(sink)
          /\ orch' = [orch EXCEPT ![p] =
                        IF existingState
                        THEN afterBroadcast(
                               Published([@ EXCEPT !.pc = "token"], "status", NoPct, sink),
                               sink, outerCatch(orch[p], SinkError))
                        ELSE [@ EXCEPT !.pc = "token"]]
  /\ UNCHANGED <<syncLogs, syncState, queue, webinars, clock, limits, unitVars>>

\* Lines 752-771: create a new sync log.
CreateSync(p) ==
  /\ orch[p].pc = "init"
  /\ orch[p].syncId = 0
  /\ \E db \in StoreOutcomes :
       IF db
       THEN /\ syncLogs' = Append(syncLogs,
                             [connection_id |-> orch[p].connectionId,
                              status |-> "running", webinars_synced |-> 0,
                              total_items |-> 0, processed_items |-> 0,
                              error_message |-> ""])
            /\ orch' = [orch EXCEPT ![p].pc = "started",
                                    ![p].syncId = Len(syncLogs) + 1]
            /\ UNCHANGED faults
       ELSE /\ orch' = [orch EXCEPT ![p].pc = "done",
                          ![p].response = errorResponse("Failed to create sync log")]
            /\ faults' = faults + 1
            /\ UNCHANGED syncLogs
  /\ UNCHANGED <<syncState, queue, webinars, progress, clock, limits, unitVars>>

\* Line 772: broadcast 'Starting new sync...'.
AnnounceStart(p) ==
  /\ orch[p].pc = "started"
  /\ \E sink \in StoreOutcomes :
       /\ progress' = broadcastProgress(progress, orch[p].syncId, "status", NoPct, sink)
       /\ faults' = faults + Cost(sink)
       /\ orch' = [orch EXCEPT ![p] =
                     afterBroadcast(
                       Published([@ EXCEPT !.pc = "token"], "status", NoPct, sink),
                       sink, outerCatch(orch[p], SinkError))]
  /\ UNCHANGED <<syncLogs, syncState, queue, webinars, clock, limits, unitVars>>

\* Lines 775-791: getZoomAccessToken, then broadcast 'Fetching webinar lists...'.
\* A missing connection, a failed decryption or a failed refresh throws.
GetAccessToken(p) ==
  /\ orch[p].pc = "token"
  /\ \E cred \in StoreOutcomes :
       IF cred
       THEN \E sink \in StoreOutcomes :
              /\ progress' = broadcastProgress(progress, orch[p].syncId, "status",
                                               Pct(0), sink)
              /\ faults' = faults + Cost(sink)
              /\ orch' = [orch EXCEPT ![p] =
                            afterBroadcast(
                              Published([@ EXCEPT !.pc = "list_past"], "status",
                                        Pct(0), sink),
                              sink, outerCatch(orch[p], SinkError))]
       ELSE /\ orch' = [orch EXCEPT ![p].pc = "done",
                          ![p].response = errorResponse("Connection not found")]
            /\ faults' = faults + 1
            /\ UNCHANGED progress
  /\ UNCHANGED <<syncLogs, syncState, queue, webinars, clock, limits, unitVars>>

\* The tokens the remote may return with a page: the model stops handing out
\* tokens after limits.pages pages of one listing.
TokenChoices(pageCount) == IF pageCount + 1 < limits.pages THEN BOOLEAN ELSE {FALSE}

\* The pages the remote may answer with: the model lists at most limits.items
\* webinars to one invocation.
PageChoices(pages, allWebinars) ==
  {pg \in pages : Len(allWebinars) + Len(pg) <= limits.items}

\* allWebinars.push(...webinars.map(w => ({webinar_id: w.id, webinar_type})))
pushWebinars(allWebinars, page, type) ==
  allWebinars \o [i \in 1..Len(page) |-> [webinar_id |-> page[i], webinar_type |-> type]]

\* One iteration of a listing do-while (lines 800-827 for 'past', 837-864 for
\* 'upcoming'): a rate-limited fetchWebinarList, the push, the broadcast, and
\* the loop test.  A thrown error leaves the handler through the outer catch.
ListWebinars(p, type, pages, pct, here, next) ==
  /\ orch[p].pc = here
  /\ \E http \in RemoteOutcomes :
       IF http = "ok"
       THEN \E page \in PageChoices(pages, orch[p].allWebinars),
               token \in TokenChoices(orch[p].pageCount),
               sink \in StoreOutcomes :
              LET out == fetchWebinarList(http, page, token)
              IN /\ progress' = broadcastProgress(progress, orch[p].syncId, "progress",
                                                  Pct(pct), sink)
                 /\ faults' = faults + Cost(sink)
                 /\ orch' = [orch EXCEPT ![p] =
                      afterBroadcast(
                        Published(
                          [@ EXCEPT
                             !.allWebinars = pushWebinars(@, out.webinars, type),
                             !.nextPageToken = out.nextPageToken,
                             !.pageCount = IF ~out.nextPageToken /\ type = "past"
                                           THEN 0 ELSE @ + 1,
                             !.listCalls = @ + 1,
                             !.http = http,
                             !.pc = IF out.nextPageToken THEN here ELSE next],
                          "progress", Pct(pct), sink),
                        sink, outerCatch(orch[p], SinkError))]
       ELSE LET out == fetchWebinarList(http, <<>>, FALSE)
            IN /\ ~RetriedByLimiter(out)
               /\ orch' = [orch EXCEPT ![p].pc = "done",
                             ![p].listCalls = @ + 1,
                             ![p].http = http,
                             ![p].response = errorResponse(out.message)]
               /\ faults' = faults + 1
               /\ UNCHANGED progress
  /\ UNCHANGED <<syncLogs, syncState, queue, webinars, clock, limits, unitVars>>

ListPast(p) == ListWebinars(p, "past", PastPages, 5, "list_past", "list_upcoming")

ListUpcoming(p) == ListWebinars(p, "upcoming", UpcomingPages, 10, "list_upcoming", "queue")

\* Lines 869-896: broadcast 'Queuing ...' at 15, then insert one queue row per
\* listed webinar; a failed insert throws.
QueueWebinars(p) ==
  /\ orch[p].pc = "queue"
  /\ \E sink \in StoreOutcomes :
       /\ progress' = broadcastProgress(progress, orch[p].syncId, "status", Pct(15), sink)
       /\ \E db \in (IF faults + Cost(sink) < limits.faults /\ Len(orch[p].allWebinars) > 0
                     THEN BOOLEAN ELSE {TRUE}) :
            /\ faults' = faults + Cost(sink) + Cost(db)
            /\ IF db
               THEN /\ queue' = queue \o queueItems(orch[p].allWebinars, orch[p].syncId,
                                                    clock, Len(queue))
                    /\ orch' = [orch EXCEPT ![p] =
                                  afterBroadcast(
                                    Published([@ EXCEPT !.pc = "save_state"], "status",
                                              Pct(15), sink),
                                    sink, outerCatch(orch[p], SinkError))]
               ELSE /\ orch' = [orch EXCEPT ![p] =
                                  afterBroadcast(
                                    outerCatch(Published(@, "status", Pct(15), sink),
                                               "Failed to queue webinars"),
                                    sink, outerCatch(orch[p], SinkError))]
                    /\ UNCHANGED queue
  /\ UNCHANGED <<syncLogs, syncState, webinars, clock, limits, unitVars>>

\* Lines 898-908: save the sync state.
SaveSyncState(p) ==
  /\ orch[p].pc = "save_state"
  /\ syncState' = upsertSyncState(syncState,
                    [sync_id |-> orch[p].syncId, connection_id |-> orch[p].connectionId,
                     total_items |-> Len(orch[p].allWebinars), processed_items |-> 0])
  /\ orch' = [orch EXCEPT ![p].pc = "select"]
  /\ UNCHANGED <<syncLogs, queue, webinars, progress, clock, limits, unitVars, faults>>

\* Lines 913-921: select the run's pending queue rows, ordered.
SelectPending(p) ==
  /\ orch[p].pc = "select"
  /\ \E items \in selectPending(queue, orch[p].syncId) :
       orch' = [orch EXCEPT ![p].queuedItems = items, ![p].idx = 1,
                  ![p].pc = IF Len(items) > 0 THEN "mark_processing" ELSE "complete"]
  /\ UNCHANGED <<storeVars, clock, limits, unitVars, faults>>

\* The queue item the drain loop is at.
Item(p) == orch[p].queuedItems[orch[p].idx]

\* A variant in which the loop ends with the item at hand.
NextItemBreak(o) ==
  [o EXCEPT !.idx = @ + 1,
            !.webinarDetails = NoDetails, !.additionalData = NoAdditional,
            !.error = "", !.http = "",
            !.pc = "complete"]

\* A variant in which the loop takes up again an item that has just failed.
NextItemRetrying(o) ==
  [o EXCEPT !.idx = IF o.error # "" THEN @ ELSE @ + 1,
            !.webinarDetails = NoDetails, !.additionalData = NoAdditional,
            !.error = "", !.http = "",
            !.pc = IF o.error # "" \/ o.idx < Len(o.queuedItems)
                   THEN "mark_processing" ELSE "complete"]

\* for (const item of queuedItems): on to the next item, or out of the loop.
NextItem(o) ==
  [o EXCEPT !.idx = @ + 1,
            !.webinarDetails = NoDetails, !.additionalData = NoAdditional,
            !.error = "", !.http = "",
            !.pc = IF o.idx < Len(o.queuedItems) THEN "mark_processing" ELSE "complete"]

\* A variant in which the row is claimed only while it is still pending, and an
\* instance that finds it claimed goes on to its next item.
MarkProcessingClaiming(p) ==
  /\ orch[p].pc = "mark_processing"
  /\ IF queue[Item(p).id].processing_status = "pending"
     THEN /\ queue' = markQueueItem(queue, Item(p).id, "processing",
                                    queue[Item(p).id].retry_count,
                                    queue[Item(p).id].error_message)
          /\ orch' = [orch EXCEPT ![p].pc = "details", ![p].marked = Append(@, Item(p).id)]
     ELSE /\ queue' = queue
          /\ orch' = [orch EXCEPT ![p] = NextItem(orch[p])]
  /\ UNCHANGED <<syncLogs, syncState, webinars, progress, clock, limits, unitVars, faults>>

\* processWebinar, lines 490-497: mark the queue row as processing.
MarkProcessing(p) ==
  /\ orch[p].pc = "mark_processing"
  /\ queue' = markQueueItem(queue, Item(p).id, "processing",
                            queue[Item(p).id].retry_count,
                            queue[Item(p).id].error_message)
  /\ orch' = [orch EXCEPT ![p].pc = "details", ![p].marked = Append(@, Item(p).id)]
  /\ UNCHANGED <<syncLogs, syncState, webinars, progress, clock, limits, unitVars, faults>>

\* The detail payloads the remote may answer with for a webinar id.
DetailPayloads(id) ==
  {[id |-> id, start_time |-> 9, status |-> "waiting"]}

\* processWebinar, lines 499-502: the rate-limited fetchWebinarDetails.
FetchDetails(p) ==
  /\ orch[p].pc = "details"
  /\ \E http \in RemoteOutcomes :
       \E payload \in (IF http = "ok" THEN DetailPayloads(Item(p).webinar_id)
                       ELSE {NoDetails}) :
         LET out == fetchWebinarDetails(http, payload)
         IN /\ ~RetriedByLimiter(out)
            /\ faults' = faults + (IF http = "ok" THEN 0 ELSE 1)
            /\ orch' = [orch EXCEPT
                 ![p].detailCalls = Append(@, Item(p).id),
                 ![p].http = http,
                 ![p].thrown = IF out.kind = "value" THEN @ ELSE @ \cup {Item(p).id},
                 ![p].webinarDetails = out.data,
                 ![p].error = out.message,
                 ![p].pc = IF out.kind = "value" THEN "additional" ELSE "item_failed"]
  /\ UNCHANGED <<storeVars, clock, limits, unitVars>>

\* processWebinar, lines 507-513: fetchAdditionalWebinarData, inside
\* processWebinar's try.
FetchAdditional(p) ==
  /\ orch[p].pc = "additional"
  /\ \E o \in AuxOutcomes(Item(p).webinar_type, RemoteOutcomes) :
       /\ faults + AuxFaults(o) <= limits.faults
       /\ faults' = faults + AuxFaults(o)
       /\ orch' = [orch EXCEPT
            ![p].auxFailed = IF AuxFaults(o) = 0 THEN @
                             ELSE @ \cup {[id |-> Item(p).id, n |-> AuxFaults(o)]},
            ![p].additionalData =
               IF fetchAdditionalRejects(Item(p).webinar_type, o) THEN @
               ELSE fetchAdditionalWebinarData(Item(p).webinar_type, o),
            ![p].thrown =
               IF fetchAdditionalRejects(Item(p).webinar_type, o)
               THEN @ \cup {Item(p).id} ELSE @,
            ![p].error =
               IF fetchAdditionalRejects(Item(p).webinar_type, o) THEN "fetch failed" ELSE @,
            ![p].pc =
               IF fetchAdditionalRejects(Item(p).webinar_type, o)
               THEN "item_failed" ELSE "upsert"]
  /\ UNCHANGED <<storeVars, clock, limits, unitVars>>

\* processWebinar, lines 515-631: the row to upsert (the fields the sync's
\* correctness rests on).
webinarData(webinarDetails, additionalData, queueItem, connectionId, now) ==
  [webinar_id |-> webinarDetails.id,
   connection_id |-> connectionId,
   status |-> determineWebinarStatus(webinarDetails, queueItem.webinar_type, now),
   start_time |-> webinarDetails.start_time,
   additional_data |-> additionalData,
   raw_response |-> webinarDetails,
   synced_at |-> now,
   participant_sync_status |->
     IF queueItem.webinar_type = "past" THEN "pending" ELSE "not_applicable"]

\* processWebinar, lines 642-652: the upsert; an upsertError is thrown.
UpsertWebinar(p) ==
  /\ orch[p].pc = "upsert"
  /\ \E db \in StoreOutcomes :
       /\ faults' = faults + Cost(db)
       /\ IF db
          THEN /\ webinars' = upsertWebinar(webinars,
                                webinarData(orch[p].webinarDetails, orch[p].additionalData,
                                            Item(p), orch[p].connectionId, clock))
               /\ orch' = [orch EXCEPT ![p].pc = "mark_completed"]
          ELSE /\ orch' = [orch EXCEPT ![p].pc = "item_failed",
                                       ![p].thrown = @ \cup {Item(p).id},
                                       ![p].error = "upsert failed"]
               /\ UNCHANGED webinars
  /\ UNCHANGED <<syncLogs, syncState, queue, progress, clock, limits, unitVars>>

\* processWebinar, lines 656-677: mark the queue row completed and broadcast
\* the 'webinar' event.
MarkCompleted(p) ==
  /\ orch[p].pc = "mark_completed"
  /\ queue' = markQueueItem(queue, Item(p).id, "completed",
                            queue[Item(p).id].retry_count,
                            queue[Item(p).id].error_message)
  /\ \E sink \in StoreOutcomes :
       /\ progress' = broadcastProgress(progress, orch[p].syncId, "webinar", NoPct, sink)
       /\ faults' = faults + Cost(sink)
       /\ orch' = [orch EXCEPT ![p] =
                     afterBroadcast(
                       Published([@ EXCEPT !.pc = "item_done"], "webinar", NoPct, sink),
                       sink, [orch[p] EXCEPT !.pc = "item_failed", !.error = SinkError])]
  /\ UNCHANGED <<syncLogs, syncState, webinars, clock, limits, unitVars>>

\* const percentage = 15 + (processedCount / queuedItems.length) * 80
percentage(processedCount, total) == <<15 * total + 80 * processedCount, total>>

\* Drain loop, lines 928-950: count the item, broadcast the progress, update
\* the sync state.
ItemDone(p) ==
  /\ orch[p].pc = "item_done"
  /\ LET n == orch[p].processedCount + 1
         pct == percentage(n, Len(orch[p].queuedItems))
     IN /\ \E sink \in StoreOutcomes :
             /\ progress' = broadcastProgress(progress, orch[p].syncId, "progress", pct, sink)
             /\ faults' = faults + Cost(sink)
             /\ orch' = [orch EXCEPT ![p] =
                           afterBroadcast(
                             NextItem(Published([@ EXCEPT !.processedCount = n],
                                                "progress", pct, sink)),
                             sink,
                             NextItem([orch[p] EXCEPT !.processedCount = n,
                                                      !.failedCount = @ + 1]))]
        /\ syncState' = updateSyncState(syncState, orch[p].syncId, n)
  /\ UNCHANGED <<syncLogs, queue, webinars, clock, limits, unitVars>>

\* A variant of the catch that only counts the failure: the row keeps the
\* status it has.
ItemFailedUnmarked(p) ==
  /\ orch[p].pc = "item_failed"
  /\ queue' = queue
  /\ \E sink \in StoreOutcomes :
       /\ progress' = broadcastProgress(progress, orch[p].syncId, "error", NoPct, sink)
       /\ faults' = faults + Cost(sink)
       /\ orch' = [orch EXCEPT ![p] =
                     afterBroadcast(
                       NextItem(Published([@ EXCEPT !.failedCount = @ + 1],
                                          "error", NoPct, sink)),
                       sink, NextItem([orch[p] EXCEPT !.failedCount = @ + 1]))]
  /\ UNCHANGED <<syncLogs, syncState, webinars, clock, limits, unitVars>>

\* processWebinar's catch, lines 679-703, and the drain loop's catch, lines
\* 952-956: the queue row is marked failed with the retry count of the row
\* as it was selected plus one, the error is broadcast and rethrown, the
\* loop counts it and continues with the next item.
ItemFailed(p) ==
  /\ orch[p].pc = "item_failed"
  /\ queue' = markQueueItem(queue, Item(p).id, "failed", Item(p).retry_count + 1,
                            orch[p].error)
  /\ \E sink \in StoreOutcomes :
       /\ progress' = broadcastProgress(progress, orch[p].syncId, "error", NoPct, sink)
       /\ faults' = faults + Cost(sink)
       /\ orch' = [orch EXCEPT ![p] =
                     afterBroadcast(
                       NextItem(Published([@ EXCEPT !.failedCount = @ + 1],
                                          "error", NoPct, sink)),
                       sink, NextItem([orch[p] EXCEPT !.failedCount = @ + 1]))]
  /\ UNCHANGED <<syncLogs, syncState, webinars, clock, limits, unitVars>>

\* Lines 962-999: mark the sync log completed, broadcast the closing event at
\* 100 and answer 200.
CompleteSync(p) ==
  /\ orch[p].pc = "complete"
  /\ syncLogs' = completeSyncLog(syncLogs, orch[p].syncId, Len(orch[p].allWebinars))
  /\ \E sink \in StoreOutcomes :
       /\ progress' = broadcastProgress(progress, orch[p].syncId, "status", Pct(100), sink)
       /\ faults' = faults + Cost(sink)
       /\ orch' = [orch EXCEPT ![p] =
                     afterBroadcast(
                       Published(
                         [@ EXCEPT
                            !.pc = "done",
                            !.response = [status |-> 200,
                                          fields |-> {"success", "syncId",
                                                      "webinarsSynced", "message"},
                                          success |-> TRUE,
                                          syncId |-> orch[p].syncId,
                                          webinarsSynced |-> Len(orch[p].allWebinars),
                                          error |-> ""]],
                         "status", Pct(100), sink),
                       sink, outerCatch(orch[p], SinkError))]
  /\ UNCHANGED <<syncState, queue, webinars, clock, limits, unitVars>>

\* The host process terminates in the middle of a request: the handler's
\* locals are gone, the store keeps what was written.
Terminate(p) ==
  /\ orch[p].pc \notin {"idle", "done"}
  /\ orch' = [orch EXCEPT ![p] = IdleOrch]
  /\ UNCHANGED <<storeVars, clock, limits, unitVars, faults>>

Step(p) ==
  \/ Start(p)
  \/ ResumeSync(p)
  \/ CreateSync(p)
  \/ AnnounceStart(p)
  \/ GetAccessToken(p)
  \/ ListPast(p)
  \/ ListUpcoming(p)
  \/ QueueWebinars(p)
  \/ SaveSyncState(p)
  \/ SelectPending(p)
  \/ MarkProcessing(p)
  \/ FetchDetails(p)
  \/ FetchAdditional(p)
  \/ UpsertWebinar(p)
  \/ MarkCompleted(p)
  \/ ItemDone(p)
  \/ ItemFailed(p)
  \/ CompleteSync(p)
  \/ Terminate(p)

Next == \E p \in Procs : Step(p)

Spec == Init /\ [][Next]_vars

\* A step of the handler of p: the continuation of an awaited exchange with
\* the store or the remote.  Every such exchange completes, so the step is
\* taken once it can be; a request arriving and the host shutting the instance
\* down are the environment's.
Running(p) == Step(p) /\ orch[p].pc \notin {"idle", "done"} /\ orch'[p].pc # "idle"

\* A single request against the empty store whose awaited exchanges all
\* complete.
InitLive ==
  /\ syncLogs = <<>>
  /\ syncState = <<>>
  /\ queue = <<>>
  /\ webinars = <<>>
  /\ progress = <<>>
  /\ orch = [p \in Procs |-> IdleOrch]
  /\ clock = 0
  /\ faults = 0
  /\ limits = [calls |-> 0, invocations |-> 1, faults |-> MaxLiveFaults,
               pages |-> MaxLivePages, items |-> MaxLiveItems, instances |-> 1]
  /\ limiter = NewLimiter
  /\ callers = [c \in Callers |-> IdleCaller]
  /\ issued = <<>>
  /\ statusCase = NoStatusCase
  /\ fieldCase = NoFieldCase
  /\ batch = IdleBatch

SpecLive == InitLive /\ [][Next]_vars /\ \A p \in Procs : WF_vars(Running(p))

\* A single request against the empty store, with more failures injected.
InitRun ==
  /\ syncLogs = <<>>
  /\ syncState = <<>>
  /\ queue = <<>>
  /\ webinars = <<>>
  /\ progress = <<>>
  /\ orch = [p \in Procs |-> IdleOrch]
  /\ clock = 0
  /\ faults = 0
  /\ limits = [calls |-> 0, invocations |-> 1, faults |-> MaxRunFaults,
               pages |-> MaxRunPages, items |-> MaxRunItems, instances |-> 1]
  /\ limiter = NewLimiter
  /\ callers = [c \in Callers |-> IdleCaller]
  /\ issued = <<>>
  /\ statusCase = NoStatusCase
  /\ fieldCase = NoFieldCase
  /\ batch = IdleBatch

SpecRun == InitRun /\ [][Next]_vars

\* A single request against a remote with long listings of few webinars.
InitList ==
  /\ syncLogs = <<>>
  /\ syncState = <<>>
  /\ queue = <<>>
  /\ webinars = <<>>
  /\ progress = <<>>
  /\ orch = [p \in Procs |-> IdleOrch]
  /\ clock = 0
  /\ faults = 0
  /\ limits = [calls |-> 0, invocations |-> 1, faults |-> MaxListFaults,
               pages |-> MaxListPages, items |-> 1, instances |-> 1]
  /\ limiter = NewLimiter
  /\ callers = [c \in Callers |-> IdleCaller]
  /\ issued = <<>>
  /\ statusCase = NoStatusCase
  /\ fieldCase = NoFieldCase
  /\ batch = IdleBatch

SpecList == InitList /\ [][Next]_vars

\* A single request for one webinar, with enough failures for all the
\* enrichment exchanges of the webinar to fail together.
InitAux ==
  /\ syncLogs = <<>>
  /\ syncState = <<>>
  /\ queue = <<>>
  /\ webinars = <<>>
  /\ progress = <<>>
  /\ orch = [p \in Procs |-> IdleOrch]
  /\ clock = 0
  /\ faults = 0
  /\ limits = [calls |-> 0, invocations |-> 1, faults |-> MaxAuxFaults,
               pages |-> 1, items |-> 1, instances |-> 1]
  /\ limiter = NewLimiter
  /\ callers = [c \in Callers |-> IdleCaller]
  /\ issued = <<>>
  /\ statusCase = NoStatusCase
  /\ fieldCase = NoFieldCase
  /\ batch = IdleBatch

SpecAux == InitAux /\ [][Next]_vars

\* The page ceiling of the batch sync's listing (zoom-sync-webinars,
\* fetchWebinars): the only ceiling the repository configures.
maxPages == 10

\* The store as an interrupted request for "c1" left it once its rows were
\* queued, the rows' priority and scheduled_at being whatever the writers of
\* webinar_sync_queue set them to; one more request follows.
DrainPriorities == {3, 5}
DrainSchedules == {0, 1}

InitDrain ==
  /\ syncLogs = <<[connection_id |-> "c1", status |-> "running", webinars_synced |-> 0,
                   total_items |-> 0, processed_items |-> 0, error_message |-> ""]>>
  /\ syncState = <<[sync_id |-> 1, connection_id |-> "c1", total_items |-> MaxQueued,
                    processed_items |-> 0]>>
  /\ \E priority \in [1..MaxQueued -> DrainPriorities],
        scheduled_at \in [1..MaxQueued -> DrainSchedules] :
       queue = [i \in 1..MaxQueued |->
                  [id |-> i, sync_id |-> 1, webinar_id |-> i, webinar_type |-> "upcoming",
                   priority |-> priority[i], scheduled_at |-> scheduled_at[i],
                   processing_status |-> "pending", retry_count |-> 0,
                   error_message |-> ""]]
  /\ webinars = <<>>
  /\ progress = <<>>
  /\ orch = [p \in Procs |-> IdleOrch]
  /\ clock = 1
  /\ faults = 0
  /\ limits = [calls |-> 0, invocations |-> 2, faults |-> MaxDrainFaults,
               pages |-> 1, items |-> 1, instances |-> 1]
  /\ limiter = NewLimiter
  /\ callers = [c \in Callers |-> IdleCaller]
  /\ issued = <<>>
  /\ statusCase = NoStatusCase
  /\ fieldCase = NoFieldCase
  /\ batch = IdleBatch

SpecDrain == InitDrain /\ [][Next]_vars

\* The store as an interrupted request for "c1" left it once its rows were
\* queued, and two instances of the function that each take requests: the
\* host starts one instance per request and nothing serialises them.  The
\* first instance has just accepted a request that resumes the run; one more
\* request follows, taken by whichever instance is free.
InitPair ==
  /\ syncLogs = <<[connection_id |-> "c1", status |-> "running", webinars_synced |-> 0,
                   total_items |-> 0, processed_items |-> 0, error_message |-> ""]>>
  /\ syncState = <<[sync_id |-> 1, connection_id |-> "c1", total_items |-> MaxPairQueued,
                    processed_items |-> 0]>>
  /\ queue = [i \in 1..MaxPairQueued |->
                [id |-> i, sync_id |-> 1, webinar_id |-> i, webinar_type |-> "upcoming",
                 priority |-> 5, scheduled_at |-> 0,
                 processing_status |-> "pending", retry_count |-> 0,
                 error_message |-> ""]]
  /\ webinars = <<>>
  /\ progress = <<>>
  /\ orch = [p \in Procs |->
               IF p = 1
               THEN [IdleOrch EXCEPT !.pc = "init", !.connectionId = "c1",
                       !.resumeSyncId = 1, !.syncId = 1]
               ELSE IdleOrch]
  /\ clock = 2
  /\ faults = 0
  /\ limits = [calls |-> 0, invocations |-> 3, faults |-> MaxPairFaults,
               pages |-> 1, items |-> 0, instances |-> 2]
  /\ limiter = NewLimiter
  /\ callers = [c \in Callers |-> IdleCaller]
  /\ issued = <<>>
  /\ statusCase = NoStatusCase
  /\ fieldCase = NoFieldCase
  /\ batch = IdleBatch

SpecPair == InitPair /\ [][Next]_vars

\* ----------------------- the older batch sync (zoom-sync-webinars): the handler

\* What the batch handler's steps leave alone.
batchFrame == <<syncState, queue, progress, orch, limits, limiter, callers, issued,
                statusCase, fieldCase>>

\* The requests the handler turns down before it creates a sync log (lines
\* 173-234): environment, authentication, body, connection.
Rejections ==
  {EdgeFunctionError("Missing required environment variables", 500),
   EdgeFunctionError("Missing Authorization header", 401),
   EdgeFunctionError("Authentication failed", 401),
   EdgeFunctionError("Invalid request body", 400),
   EdgeFunctionError("Missing connection ID", 400),
   EdgeFunctionError("Connection not found", 404),
   EdgeFunctionError("No access token found. Please reconnect your Zoom account.", 400),
   EdgeFunctionError("Zoom access token has expired. Please reconnect your account.", 401)}

\* Lines 281-292: the outer catch answers with success false, the message and
\* the error's status code, 500 when it has none.
batchFailure(error) ==
  LET formatted == formatErrorResponse(error)
  IN [status |-> IF formatted.statusCode # 0 THEN formatted.statusCode ELSE 500,
      fields |-> {"success", "error", "requestId"}, success |-> FALSE,
      syncId |-> 0, webinarsSynced |-> 0, error |-> formatted.error]

\* Lines 170-234: the request is validated and the connection looked up.
BatchRequest ==
  /\ batch.pc \in {"idle", "done"}
  /\ clock < limits.invocations
  /\ \E rejection \in Rejections \cup {NoError}, c \in Connections :
       batch' = IF rejection # NoError
                THEN [IdleBatch EXCEPT !.pc = "done", !.response = batchFailure(rejection)]
                ELSE [IdleBatch EXCEPT !.pc = "create_log", !.connectionId = c]
  /\ clock' = clock + 1
  /\ UNCHANGED <<syncLogs, webinars, faults, batchFrame>>

\* Line 237, createSyncLog: a failed insert throws to the outer catch.
BatchCreateSyncLog ==
  /\ batch.pc = "create_log"
  /\ \E db \in StoreOutcomes :
       /\ faults' = faults + Cost(db)
       /\ IF db
          THEN /\ syncLogs' = createSyncLog(syncLogs, batch.connectionId)
               /\ batch' = [batch EXCEPT !.pc = "test_api", !.syncLogId = Len(syncLogs) + 1]
          ELSE /\ batch' = [batch EXCEPT !.pc = "done",
                              !.response = batchFailure(
                                EdgeFunctionError("Failed to initialize sync", 500))]
               /\ UNCHANGED syncLogs
  /\ UNCHANGED <<webinars, clock, batchFrame>>

\* Line 243, testZoomAPI: a non-2xx answer throws a 401 EdgeFunctionError, a
\* failed exchange the TypeError of fetch().
BatchTestZoomAPI ==
  /\ batch.pc = "test_api"
  /\ \E http \in RemoteOutcomes :
       /\ faults' = faults + (IF http = "ok" THEN 0 ELSE 1)
       /\ batch' = IF http = "ok" THEN [batch EXCEPT !.pc = "fetch"]
                   ELSE [batch EXCEPT !.pc = "failing",
                           !.error = IF http = "neterr"
                                     THEN EdgeFunctionError("fetch failed", 0)
                                     ELSE EdgeFunctionError(
                                            "Zoom API authentication failed. Please reconnect your account.",
                                            401)]
  /\ UNCHANGED <<syncLogs, webinars, clock, batchFrame>>

\* The numbers of webinars a page of the remote may carry.
BatchPageSizes == {0, 1, batchSize}

\* A variant of the do-while whose test is the continuation token alone.
BatchFetchWebinarsUnbounded ==
  /\ batch.pc = "fetch"
  /\ \E http \in RemoteOutcomes :
       /\ faults' = faults + (IF http = "ok" THEN 0 ELSE 1)
       /\ IF http = "ok"
          THEN \E size \in {n \in BatchPageSizes :
                               Len(batch.allWebinars) + n <= limits.items},
                  token \in TokenChoices(batch.pageCount) :
                 LET n == Len(batch.allWebinars)
                     all == batch.allWebinars \o [k \in 1..size |-> RemoteWebinar(n + k)]
                 IN batch' = [batch EXCEPT
                                !.pageCount = @ + 1,
                                !.allWebinars = all,
                                !.nextPageToken = token,
                                !.totalWebinars = IF token THEN @ ELSE Len(all),
                                !.pc = IF token THEN "fetch" ELSE "update_total"]
          ELSE batch' = [batch EXCEPT
                           !.pageCount = @ + 1,
                           !.pc = "failing",
                           !.error = IF http = "neterr"
                                     THEN EdgeFunctionError("fetch failed", 0)
                                     ELSE EdgeFunctionError("Failed to fetch webinars", 500)]
  /\ UNCHANGED <<syncLogs, webinars, clock, batchFrame>>

\* fetchWebinars, lines 66-86: one iteration of the do-while.  The loop goes
\* on while there is a continuation token and pageCount < maxPages.
BatchFetchWebinars ==
  /\ batch.pc = "fetch"
  /\ \E http \in RemoteOutcomes :
       /\ faults' = faults + (IF http = "ok" THEN 0 ELSE 1)
       /\ IF http = "ok"
          THEN \E size \in {n \in BatchPageSizes :
                               Len(batch.allWebinars) + n <= limits.items},
                  token \in TokenChoices(batch.pageCount) :
                 LET n == Len(batch.allWebinars)
                     pageCount == batch.pageCount + 1
                     all == batch.allWebinars \o [k \in 1..size |-> RemoteWebinar(n + k)]
                 IN batch' = [batch EXCEPT
                                !.pageCount = pageCount,
                                !.allWebinars = all,
                                !.nextPageToken = token,
                                !.totalWebinars = IF token /\ pageCount < maxPages
                                                  THEN @ ELSE Len(all),
                                !.pc = IF token /\ pageCount < maxPages
                                       THEN "fetch" ELSE "update_total"]
          ELSE batch' = [batch EXCEPT
                           !.pageCount = @ + 1,
                           !.pc = "failing",
                           !.error = IF http = "neterr"
                                     THEN EdgeFunctionError("fetch failed", 0)
                                     ELSE EdgeFunctionError("Failed to fetch webinars", 500)]
  /\ UNCHANGED <<syncLogs, webinars, clock, batchFrame>>

\* Lines 251-257: total_items is written; saveWebinars is entered when there
\* is a webinar.
BatchUpdateTotal ==
  /\ batch.pc = "update_total"
  /\ syncLogs' = updateTotalItems(syncLogs, batch.syncLogId, batch.totalWebinars)
  /\ batch' = [batch EXCEPT !.pc = IF batch.totalWebinars > 0 THEN "save" ELSE "complete"]
  /\ UNCHANGED <<webinars, clock, faults, batchFrame>>

\* saveWebinars, lines 94-123: one iteration of the loop: the batch is
\* upserted, counted and the progress written; a failed upsert throws.
BatchSaveWebinars ==
  /\ batch.pc = "save"
  /\ \E db \in StoreOutcomes :
       LET group == slice(batch.allWebinars, batch.i, batch.i + batchSize)
           processedCount == batch.processedCount + Len(group)
       IN /\ faults' = faults + Cost(db)
          /\ IF db
             THEN /\ webinars' = upsertBatch(webinars, group, batch.connectionId, clock)
                  /\ syncLogs' = updateSyncProgress(syncLogs, batch.syncLogId,
                                                    processedCount)
                  /\ batch' = [batch EXCEPT
                                 !.processedCount = processedCount,
                                 !.i = @ + batchSize,
                                 !.pc = IF batch.i + batchSize < Len(batch.allWebinars)
                                        THEN "save" ELSE "complete"]
             ELSE /\ batch' = [batch EXCEPT
                                 !.pc = "failing",
                                 !.error = EdgeFunctionError("Failed to save webinars", 500)]
                  /\ UNCHANGED <<webinars, syncLogs>>
  /\ UNCHANGED <<clock, batchFrame>>

\* Lines 259-273: the log is closed as completed and the request answered.
BatchComplete ==
  /\ batch.pc = "complete"
  /\ syncLogs' = serviceCompleteSyncLog(syncLogs, batch.syncLogId, batch.totalWebinars,
                                        "completed", "")
  /\ batch' = [batch EXCEPT
                 !.pc = "done",
                 !.response = [status |-> 200,
                               fields |-> {"success", "syncId", "data", "requestId"},
                               success |-> TRUE, syncId |-> batch.syncLogId,
                               webinarsSynced |-> batch.totalWebinars, error |-> ""]]
  /\ UNCHANGED <<webinars, clock, faults, batchFrame>>

\* A variant without the inner catch: the error goes straight to the outer
\* catch and the log is not closed.
BatchFailLogLeftOpen ==
  /\ batch.pc = "failing"
  /\ batch' = [batch EXCEPT !.pc = "done", !.response = batchFailure(batch.error)]
  /\ UNCHANGED <<syncLogs, webinars, clock, faults, batchFrame>>

\* Lines 275-292: the inner catch closes the log as failed with the message
\* and rethrows; the outer catch answers.
BatchFail ==
  /\ batch.pc = "failing"
  /\ syncLogs' = serviceCompleteSyncLog(syncLogs, batch.syncLogId, batch.totalWebinars,
                                        "failed", batch.error.message)
  /\ batch' = [batch EXCEPT !.pc = "done", !.response = batchFailure(batch.error)]
  /\ UNCHANGED <<webinars, clock, faults, batchFrame>>

\* The host process terminates in the middle of a request.
BatchTerminate ==
  /\ batch.pc \notin {"idle", "done"}
  /\ batch' = IdleBatch
  /\ UNCHANGED <<syncLogs, webinars, clock, faults, batchFrame>>

NextBatch ==
  \/ BatchRequest
  \/ BatchCreateSyncLog
  \/ BatchTestZoomAPI
  \/ BatchFetchWebinars
  \/ BatchUpdateTotal
  \/ BatchSaveWebinars
  \/ BatchComplete
  \/ BatchFail
  \/ BatchTerminate

\* Both functions deployed on one store: requests to the batch sync and to
\* the queue-based sync, one webinar on the remote account.
InitLogs ==
  /\ syncLogs = <<>>
  /\ syncState = <<>>
  /\ queue = <<>>
  /\ webinars = <<>>
  /\ progress = <<>>
  /\ orch = [p \in Procs |-> IdleOrch]
  /\ clock = 0
  /\ faults = 0
  /\ limits = [calls |-> 0, invocations |-> MaxLogInvocations, faults |-> MaxLogFaults,
               pages |-> 1, items |-> 1, instances |-> 1]
  /\ limiter = NewLimiter
  /\ callers = [c \in Callers |-> IdleCaller]
  /\ issued = <<>>
  /\ statusCase = NoStatusCase
  /\ fieldCase = NoFieldCase
  /\ batch = IdleBatch

NextLogs == Next \/ NextBatch

\* The batch sync on its own: one request against the empty store, a remote
\* that hands out continuation tokens beyond the page ceiling and lists more
\* webinars than one batch holds.
InitBatch ==
  /\ syncLogs = <<>>
  /\ syncState = <<>>
  /\ queue = <<>>
  /\ webinars = <<>>
  /\ progress = <<>>
  /\ orch = [p \in Procs |-> IdleOrch]
  /\ clock = 0
  /\ faults = 0
  /\ limits = [calls |-> 0, invocations |-> 1, faults |-> MaxBatchFaults,
               pages |-> MaxBatchPages, items |-> MaxBatchItems, instances |-> 1]
  /\ limiter = NewLimiter
  /\ callers = [c \in Callers |-> IdleCaller]
  /\ issued = <<>>
  /\ statusCase = NoStatusCase
  /\ fieldCase = NoFieldCase
  /\ batch = IdleBatch

SpecBatch == InitBatch /\ [][NextBatch]_vars

SpecLogs == InitLogs /\ [][NextLogs]_vars

\* ------------------------------------------------ rate limiter: the calls

\* Durations, in ms, a limited operation may take.
Durations == {0, 1, 999, 1000}

\* retry-after headers a 429 may carry ("" : none).
RetryAfterHeaders == {"", "1"}

\* A variant of parseRetryAfter: an absent header counts as no delay.
parseRetryAfterNoDefault(header) == IF header = "1" THEN 1 ELSE 0

\* parseInt(error.headers?.['retry-after'] || '60')
parseRetryAfter(header) == IF header = "" THEN 60 ELSE IF header = "1" THEN 1 ELSE 0

Max(a, b) == IF a >= b THEN a ELSE b

\* A timer or an operation due at `wake` completes: Date.now() is then no
\* earlier than wake.  Timers fire in the order they are due, and a completion
\* is a task of its own: it runs after the continuation of a caller whose
\* waitForRateLimit has returned (line 34 to line 37) has started fn().
Due(c) ==
  \A d \in Callers :
    /\ callers[d].pc # "run"
    /\ callers[d].pc \in {"sleep_retry", "sleep_second", "sleep_minute", "sleep_429", "in_fn"}
         => callers[c].wake <= callers[d].wake

\* waitForRateLimit, lines 83-91: the per-minute check, with the `now` read at
\* line 63.  Either the caller suspends or waitForRateLimit returns.
minuteCheck(caller, L, t0) ==
  IF L.callsPerMinute >= MAX_CALLS_PER_MINUTE /\ 60000 - (t0 - L.windowStart) > 0
  THEN [caller EXCEPT !.pc = "sleep_minute",
                      !.wake = L.now + (60000 - (t0 - L.windowStart))]
  ELSE [caller EXCEPT !.pc = "run"]

\* waitForRateLimit, lines 62-71: reset the windows that have elapsed.
resetWindows(L) ==
  LET L1 == IF L.now - L.windowStart > 60000
            THEN [L EXCEPT !.callsPerMinute = 0, !.windowStart = L.now] ELSE L
  IN IF L1.now - L1.secondWindowStart > 1000
     THEN [L1 EXCEPT !.callsPerSecond = 0, !.secondWindowStart = L1.now] ELSE L1

\* A caller enters executeWithRateLimit(fn).
Call(c) ==
  /\ callers[c].pc = "idle"
  /\ Len(issued) < limits.calls
  /\ callers' = [callers EXCEPT ![c] = [IdleCaller EXCEPT !.pc = "wait"]]
  /\ UNCHANGED <<limiter, issued, faults, statusCase, fieldCase, limits,
                 syncLogs, syncState, queue, webinars, progress, orch, clock, batch>>

\* waitForRateLimit up to its first await (lines 54-81).
WaitForRateLimit(c) ==
  /\ callers[c].pc = "wait"
  /\ IF limiter.retryAfter > limiter.now
     THEN /\ callers' = [callers EXCEPT ![c].pc = "sleep_retry",
                                        ![c].wake = limiter.retryAfter]
          /\ UNCHANGED limiter
     ELSE LET L == resetWindows(limiter)
              waitTime == 1000 - (L.now - L.secondWindowStart)
          IN /\ limiter' = L
             /\ callers' = [callers EXCEPT ![c] =
                  IF L.callsPerSecond >= MAX_CALLS_PER_SECOND /\ waitTime > 0
                  THEN [@ EXCEPT !.pc = "sleep_second", !.wake = L.now + waitTime,
                                 !.t0 = L.now]
                  ELSE minuteCheck(@, L, L.now)]
  /\ UNCHANGED <<issued, faults, statusCase, fieldCase, limits,
                 syncLogs, syncState, queue, webinars, progress, orch, clock, batch>>

\* The retry-after wait of line 58 ends: waitForRateLimit returns.
WakeRetry(c) ==
  /\ callers[c].pc = "sleep_retry"
  /\ Due(c)
  /\ limiter' = [limiter EXCEPT !.now = Max(@, callers[c].wake)]
  /\ callers' = [callers EXCEPT ![c].pc = "run"]
  /\ UNCHANGED <<issued, faults, statusCase, fieldCase, limits,
                 syncLogs, syncState, queue, webinars, progress, orch, clock, batch>>

\* The per-second wait ends (lines 78-79), then the per-minute check.
WakeSecond(c) ==
  /\ callers[c].pc = "sleep_second"
  /\ Due(c)
  /\ LET t == Max(limiter.now, callers[c].wake)
         L == [limiter EXCEPT !.now = t, !.callsPerSecond = 0, !.secondWindowStart = t]
     IN /\ limiter' = L
        /\ callers' = [callers EXCEPT ![c] = minuteCheck(@, L, callers[c].t0)]
  /\ UNCHANGED <<issued, faults, statusCase, fieldCase, limits,
                 syncLogs, syncState, queue, webinars, progress, orch, clock, batch>>

\* The per-minute wait ends (lines 88-89).
WakeMinute(c) ==
  /\ callers[c].pc = "sleep_minute"
  /\ Due(c)
  /\ LET t == Max(limiter.now, callers[c].wake)
     IN limiter' = [limiter EXCEPT !.now = t, !.callsPerMinute = 0, !.windowStart = t]
  /\ callers' = [callers EXCEPT ![c].pc = "run"]
  /\ UNCHANGED <<issued, faults, statusCase, fieldCase, limits,
                 syncLogs, syncState, queue, webinars, progress, orch, clock, batch>>

\* Line 37: fn() is started; it will take d ms.
RunOperation(c) ==
  /\ callers[c].pc = "run"
  /\ Len(issued) < limits.calls
  /\ issued' = Append(issued, limiter.now)
  /\ \E d \in Durations :
       callers' = [callers EXCEPT ![c].pc = "in_fn", ![c].wake = limiter.now + d]
  /\ UNCHANGED <<limiter, faults, statusCase, fieldCase, limits,
                 syncLogs, syncState, queue, webinars, progress, orch, clock, batch>>

\* A variant of recordCall that counts the call in the per-second window only.
recordCallSecondOnly(L) == [L EXCEPT !.callsPerSecond = @ + 1]

\* recordCall, lines 94-97.
recordCall(L) ==
  [L EXCEPT !.callsPerMinute = @ + 1, !.callsPerSecond = @ + 1]

\* Lines 37-39: fn() resolves; the call is recorded and the result returned.
OperationReturns(c) ==
  /\ callers[c].pc = "in_fn"
  /\ Due(c)
  /\ limiter' = recordCall([limiter EXCEPT !.now = Max(@, callers[c].wake)])
  /\ callers' = [callers EXCEPT ![c].pc = "idle", ![c].result = "value"]
  /\ UNCHANGED <<issued, faults, statusCase, fieldCase, limits,
                 syncLogs, syncState, queue, webinars, progress, orch, clock, batch>>

\* Lines 40-48: fn() rejects with status 429: blocked-until is set and the
\* caller waits retry-after seconds.
OperationRateLimited(c) ==
  /\ callers[c].pc = "in_fn"
  /\ Due(c)
  /\ faults < limits.faults
  /\ \E header \in RetryAfterHeaders :
       LET t == Max(limiter.now, callers[c].wake)
           retryAfter == parseRetryAfter(header)
       IN /\ limiter' = [limiter EXCEPT !.now = t, !.retryAfter = t + retryAfter * 1000]
          /\ callers' = [callers EXCEPT ![c].pc = "sleep_429",
                                        ![c].wake = t + retryAfter * 1000,
                                        ![c].retry = @ + 1]
  /\ faults' = faults + 1
  /\ UNCHANGED <<issued, statusCase, fieldCase, limits,
                 syncLogs, syncState, queue, webinars, progress, orch, clock, batch>>

\* Line 48: after the wait, executeWithRateLimit(fn) is called again.
RetryOperation(c) ==
  /\ callers[c].pc = "sleep_429"
  /\ Due(c)
  /\ limiter' = [limiter EXCEPT !.now = Max(@, callers[c].wake)]
  /\ callers' = [callers EXCEPT ![c].pc = "wait"]
  /\ UNCHANGED <<issued, faults, statusCase, fieldCase, limits,
                 syncLogs, syncState, queue, webinars, progress, orch, clock, batch>>

\* Line 50: fn() rejects with another error, which is rethrown.
OperationThrows(c) ==
  /\ callers[c].pc = "in_fn"
  /\ Due(c)
  /\ faults < limits.faults
  /\ limiter' = [limiter EXCEPT !.now = Max(@, callers[c].wake)]
  /\ callers' = [callers EXCEPT ![c].pc = "idle", ![c].result = "throw"]
  /\ faults' = faults + 1
  /\ UNCHANGED <<issued, statusCase, fieldCase, limits,
                 syncLogs, syncState, queue, webinars, progress, orch, clock, batch>>

LimiterStep(c) ==
  \/ Call(c)
  \/ WaitForRateLimit(c)
  \/ WakeRetry(c)
  \/ WakeSecond(c)
  \/ WakeMinute(c)
  \/ RunOperation(c)
  \/ OperationReturns(c)
  \/ OperationRateLimited(c)
  \/ RetryOperation(c)
  \/ OperationThrows(c)

NextLimiter == \E c \in Callers : LimiterStep(c)

\* A limiter that has served WarmCalls operations of no duration back to back
\* since its construction: two per second, the last two at WarmCalls/2 - 1 s.
WarmCalls == MAX_CALLS_PER_MINUTE - 2
WarmIssued == [i \in 1..WarmCalls |-> ((i - 1) \div 2) * 1000]
WarmLimiter ==
  [now |-> WarmIssued[WarmCalls], callsPerMinute |-> WarmCalls, callsPerSecond |-> 2,
   windowStart |-> 0, secondWindowStart |-> WarmIssued[WarmCalls], retryAfter |-> 0]

InitLimiter ==
  /\ syncLogs = <<>>
  /\ syncState = <<>>
  /\ queue = <<>>
  /\ webinars = <<>>
  /\ progress = <<>>
  /\ orch = [p \in Procs |-> IdleOrch]
  /\ clock = 0
  /\ faults = 0
  /\ \E warm \in BOOLEAN :
       /\ limiter = IF warm THEN WarmLimiter ELSE NewLimiter
       /\ issued = IF warm THEN WarmIssued ELSE <<>>
       /\ limits = [calls |-> Len(issued) + MaxCalls, invocations |-> 0,
                    faults |-> MaxLimiterFaults, pages |-> 0, items |-> 0, instances |-> 1]
  /\ callers = [c \in Callers |-> IdleCaller]
  /\ statusCase = NoStatusCase
  /\ fieldCase = NoFieldCase
  /\ batch = IdleBatch

SpecLimiter == InitLimiter /\ [][NextLimiter]_vars

\* One caller issuing MaxBurst operations back to back through a new limiter,
\* the remote never answering 429: each call enters executeWithRateLimit as
\* soon as the previous one has returned.
InitBurst ==
  /\ syncLogs = <<>>
  /\ syncState = <<>>
  /\ queue = <<>>
  /\ webinars = <<>>
  /\ progress = <<>>
  /\ orch = [p \in Procs |-> IdleOrch]
  /\ clock = 0
  /\ faults = 0
  /\ limits = [calls |-> MaxBurst, invocations |-> 0, faults |-> 0,
               pages |-> 0, items |-> 0, instances |-> 1]
  /\ limiter = NewLimiter
  /\ callers = [c \in Callers |-> IdleCaller]
  /\ issued = <<>>
  /\ statusCase = NoStatusCase
  /\ fieldCase = NoFieldCase
  /\ batch = IdleBatch

NextBurst ==
  \/ Call(1)
  \/ WaitForRateLimit(1)
  \/ WakeSecond(1)
  \/ RunOperation(1)
  \/ OperationReturns(1)

SpecBurst == InitBurst /\ [][NextBurst]_vars

\* One caller and a remote that answers an attempt with a 429 or with a value:
\* at most MaxAttempts attempts, MaxRetryFaults of them answered 429.
InitRetry ==
  /\ syncLogs = <<>>
  /\ syncState = <<>>
  /\ queue = <<>>
  /\ webinars = <<>>
  /\ progress = <<>>
  /\ orch = [p \in Procs |-> IdleOrch]
  /\ clock = 0
  /\ faults = 0
  /\ limits = [calls |-> MaxAttempts, invocations |-> 0, faults |-> MaxRetryFaults,
               pages |-> 0, items |-> 0, instances |-> 1]
  /\ limiter = NewLimiter
  /\ callers = [c \in Callers |-> IdleCaller]
  /\ issued = <<>>
  /\ statusCase = NoStatusCase
  /\ fieldCase = NoFieldCase
  /\ batch = IdleBatch

NextRetry ==
  \/ Call(1)
  \/ WaitForRateLimit(1)
  \/ WakeSecond(1)
  \/ RunOperation(1)
  \/ OperationReturns(1)
  \/ OperationRateLimited(1)
  \/ RetryOperation(1)

SpecRetry == InitRetry /\ [][NextRetry]_vars

\* ------------------------------------------- status derivation on its own

StatusCases ==
  [webinarDetails : [id : {1}, start_time : StartTimes, status : ApiStatuses],
   webinarType : {"past", "upcoming"}, now : Nows, result : {""}]

InitStatus ==
  /\ syncLogs = <<>>
  /\ syncState = <<>>
  /\ queue = <<>>
  /\ webinars = <<>>
  /\ progress = <<>>
  /\ orch = [p \in Procs |-> IdleOrch]
  /\ clock = 0
  /\ faults = 0
  /\ limits = [calls |-> 0, invocations |-> 0, faults |-> 0, pages |-> 0, items |-> 0, instances |-> 1]
  /\ limiter = NewLimiter
  /\ callers = [c \in Callers |-> IdleCaller]
  /\ issued = <<>>
  /\ statusCase \in StatusCases
  /\ fieldCase = NoFieldCase
  /\ batch = IdleBatch

\* processWebinar, line 516: the status of the row to upsert.
DetermineStatus ==
  /\ statusCase.result = ""
  /\ statusCase' = [statusCase EXCEPT !.result =
       determineWebinarStatus(statusCase.webinarDetails, statusCase.webinarType,
                              statusCase.now)]
  /\ UNCHANGED <<handlerVars, limits, limiter, callers, issued, fieldCase, batch>>

SpecStatus == InitStatus /\ [][DetermineStatus]_vars

\* ---------------------------------------------- fallback chains on their own

FieldCases ==
  UNION {[field : {f}, hasSettings : BOOLEAN, nested : FieldValues(f),
          top : FieldValues(f), result : {"unmapped"}] : f \in DOMAIN FieldChains}

InitFields ==
  /\ syncLogs = <<>>
  /\ syncState = <<>>
  /\ queue = <<>>
  /\ webinars = <<>>
  /\ progress = <<>>
  /\ orch = [p \in Procs |-> IdleOrch]
  /\ clock = 0
  /\ faults = 0
  /\ limits = [calls |-> 0, invocations |-> 0, faults |-> 0, pages |-> 0, items |-> 0, instances |-> 1]
  /\ limiter = NewLimiter
  /\ callers = [c \in Callers |-> IdleCaller]
  /\ issued = <<>>
  /\ statusCase = NoStatusCase
  /\ fieldCase \in {c \in FieldCases : ~c.hasSettings => c.nested = "undefined"}
  /\ batch = IdleBatch

\* processWebinar, lines 519-630: one field of the row to upsert.
MapField ==
  /\ fieldCase.result = "unmapped"
  /\ fieldCase' = [fieldCase EXCEPT !.result =
       mapField(fieldCase.field, fieldCase.hasSettings, fieldCase.nested, fieldCase.top)]
  /\ UNCHANGED <<handlerVars, limits, limiter, callers, issued, statusCase, batch>>

SpecFields == InitFields /\ [][MapField]_vars

\* ------------------------------------------------------------- properties

\* The ids of the queue rows the drain loop iterates over, in its order.
SnapshotIds(o) == [i \in 1..Len(o.queuedItems) |-> o.queuedItems[i].id]

\* The request of p has been answered 200.
Answered200(p) == orch[p].pc = "done" /\ orch[p].response.status = 200

\* The queue rows inserted by the request in progress.
InsertedNow(syncId) ==
  {i \in 1..Len(queue) : queue[i].sync_id = syncId /\ queue[i].scheduled_at = clock}

\* C1 (SpecRun).  Per-item fault isolation: when the request is answered 200,
\* every row of the drained batch was marked processing and had its details
\* requested, in the batch's order; a row whose processWebinar threw (detail
\* fetch or upsert) is 'failed' with the selected retry_count plus one, every
\* other row is 'completed' with retry_count untouched; the loop's counters
\* agree with that, and the run's log is 'completed'.
C1_PerItemFaultIsolation ==
  \A p \in Procs :
    Answered200(p) =>
      LET o == orch[p]
          items == o.queuedItems
      IN /\ o.marked = SnapshotIds(o)
         /\ o.detailCalls = SnapshotIds(o)
         /\ \A i \in 1..Len(items) :
              LET row == queue[items[i].id]
              IN IF items[i].id \in o.thrown
                 THEN /\ row.processing_status = "failed"
                      /\ row.retry_count = items[i].retry_count + 1
                      /\ row.error_message # ""
                 ELSE /\ row.processing_status = "completed"
                      /\ row.retry_count = items[i].retry_count
         /\ o.failedCount = Cardinality(o.thrown)
         /\ o.processedCount + o.failedCount = Len(items)
         /\ o.syncId \in 1..Len(syncLogs) => syncLogs[o.syncId].status = "completed"

\* C1: a batch of three whose second item threw: first and third completed,
\* second failed, the log completed.
C1_SecondOfThreeFailed ==
  \E p \in Procs :
    /\ Answered200(p)
    /\ Len(orch[p].queuedItems) = 3
    /\ orch[p].thrown = {orch[p].queuedItems[2].id}
    /\ queue[orch[p].queuedItems[1].id].processing_status = "completed"
    /\ queue[orch[p].queuedItems[2].id].processing_status = "failed"
    /\ queue[orch[p].queuedItems[2].id].retry_count = 1
    /\ queue[orch[p].queuedItems[3].id].processing_status = "completed"
    /\ orch[p].syncId \in 1..Len(syncLogs)
    /\ syncLogs[orch[p].syncId].status = "completed"

\* C2 (Spec).  Resume semantics as the specification states them: a request
\* that resumes a run of which an earlier request had queued the rows and
\* completed some, and that is answered 200 with no item failing, has created
\* no queue row for the run, has requested details only for rows that were
\* queued before it, and leaves every row of the run completed.
C2_ResumeDrainsOnlyPending ==
  \A p \in Procs :
    ( /\ Answered200(p)
      /\ orch[p].resumeSyncId \in 1..Len(syncLogs)
      /\ orch[p].thrown = {}
      /\ \E i \in 1..Len(queue) :
           /\ queue[i].sync_id = orch[p].syncId
           /\ queue[i].scheduled_at < clock
           /\ queue[i].processing_status = "completed"
           /\ i \notin Range(orch[p].marked) ) =>
      /\ InsertedNow(orch[p].syncId) = {}
      /\ \A k \in 1..Len(orch[p].detailCalls) :
           queue[orch[p].detailCalls[k]].scheduled_at < clock
      /\ \A i \in 1..Len(queue) :
           queue[i].sync_id = orch[p].syncId => queue[i].processing_status = "completed"

\* C3 (Spec).  Resume skips enumeration, as the specification states it: a
\* request carrying resumeSyncId makes no list call and inserts no queue row.
C3_ResumeSkipsEnumeration ==
  \A p \in Procs :
    orch[p].resumeSyncId \in 1..Len(syncLogs) =>
      /\ orch[p].listCalls = 0
      /\ InsertedNow(orch[p].syncId) = {}

\* C4 (SpecRun).  Run-fatal failure, as the specification states it: when a
\* request that created its sync log is answered 500, the log is 'failed'
\* with the exception's message, and no item was processed.
C4_FatalFailureMarksRunFailed ==
  \A p \in Procs :
    ( /\ orch[p].pc = "done"
      /\ orch[p].response.status = 500
      /\ orch[p].resumeSyncId = 0
      /\ orch[p].syncId \in 1..Len(syncLogs) ) =>
      /\ syncLogs[orch[p].syncId].status = "failed"
      /\ syncLogs[orch[p].syncId].error_message = orch[p].response.error
      /\ orch[p].marked = <<>>

WithinCeiling(starts) ==
  \A i, j \in 1..Len(starts) :
    /\ j = i + MAX_CALLS_PER_SECOND => starts[j] - starts[i] >= 1000
    /\ j = i + MAX_CALLS_PER_MINUTE => starts[j] - starts[i] >= 60000

\* C6 (SpecLimiter).  Rate ceiling, as the specification states it: among the
\* operations started through one limiter, no more than MAX_CALLS_PER_SECOND
\* start within any one-second window and no more than MAX_CALLS_PER_MINUTE
\* within any one-minute window.
C6_RateCeiling == WithinCeiling(issued)

\* C7 (SpecRun).  429 absorption, as the specification states it: a list or
\* detail exchange answered 429 never puts an item on the failure path and
\* never ends the request.
C7_TooManyRequestsAbsorbed ==
  \A p \in Procs :
    orch[p].http = "http429" => orch[p].pc \notin {"item_failed", "done"}

\* C8 (Spec).  Idempotent upsert: zoom_webinars never holds two rows with the
\* same (webinar_id, connection_id); and right after an upsert the only row
\* with the written key is the written row, field by field.
C8_IdempotentUpsert ==
  /\ \A i, j \in 1..Len(webinars) :
       ( /\ webinars[i].webinar_id = webinars[j].webinar_id
         /\ webinars[i].connection_id = webinars[j].connection_id ) => i = j
  /\ \A p \in Procs :
       orch[p].pc = "mark_completed" =>
         LET written == webinarData(orch[p].webinarDetails, orch[p].additionalData,
                                    Item(p), orch[p].connectionId, clock)
         IN \E i \in 1..Len(webinars) :
              /\ webinars[i] = written
              /\ \A j \in 1..Len(webinars) :
                   ( /\ webinars[j].webinar_id = written.webinar_id
                     /\ webinars[j].connection_id = written.connection_id ) => j = i

\* C8: one request for "c2" writes the same webinar twice, as a past and then
\* as an upcoming one: a single row for "c2" holds the second write, beside the
\* row an earlier request wrote for the same webinar of "c1".
C8_SecondWriteOverwrites ==
  \E p \in Procs :
    /\ orch[p].pc = "mark_completed"
    /\ clock = 2
    /\ orch[p].idx = 2
    /\ queue[orch[p].queuedItems[1].id].processing_status = "completed"
    /\ orch[p].queuedItems[1].webinar_id = Item(p).webinar_id
    /\ orch[p].queuedItems[1].webinar_type = "past"
    /\ Item(p).webinar_type = "upcoming"
    /\ Len(webinars) = 2
    /\ webinars[1].webinar_id = webinars[2].webinar_id
    /\ webinars[1].connection_id = "c1"
    /\ webinars[2].connection_id = "c2"
    /\ webinars[2].participant_sync_status = "not_applicable"
    /\ webinars[2].synced_at = 2

\* C9 (SpecStatus).  Status derivation, for every input: kind 'past' gives
\* 'finished'; otherwise a start time strictly before now gives 'finished';
\* otherwise a reported status among waiting, started, finished, scheduled is
\* passed through; otherwise the result is 'scheduled'.
C9_StatusDerivation ==
  statusCase.result # "" =>
    LET d == statusCase.webinarDetails
        r == statusCase.result
        past == statusCase.webinarType = "past"
        before == d.start_time > 0 /\ d.start_time < statusCase.now
        reported == d.status \in {"waiting", "started", "finished", "scheduled"}
    IN /\ past => r = "finished"
       /\ (~past /\ before) => r = "finished"
       /\ (~past /\ ~before /\ reported) => r = d.status
       /\ (~past /\ ~before /\ ~reported) => r = "scheduled"

\* C9: an upcoming webinar that started before now and reports 'started' is
\* 'finished': the timing overrides the reported status.
C9_TimingOverridesReported ==
  /\ statusCase.webinarType = "upcoming"
  /\ statusCase.webinarDetails.start_time = 1
  /\ statusCase.now = 5
  /\ statusCase.webinarDetails.status = "started"
  /\ statusCase.result = "finished"

\* C10 (SpecDrain).  Drain ordering: the rows are marked processing in
\* descending priority, rows of equal priority in ascending scheduled_at; and
\* when the loop is over no row of the run is left pending.
C10_DrainOrdering ==
  \A p \in Procs :
    /\ \A i, j \in 1..Len(orch[p].marked) :
         i < j =>
           LET a == queue[orch[p].marked[i]]
               b == queue[orch[p].marked[j]]
           IN \/ a.priority > b.priority
              \/ a.priority = b.priority /\ a.scheduled_at <= b.scheduled_at
    /\ orch[p].pc = "complete" =>
         \A i \in 1..Len(queue) :
           queue[i].sync_id = orch[p].syncId => queue[i].processing_status # "pending"

\* C10: four rows drained as priority 5 at 0, priority 5 at 1, priority 5 at
\* 2, priority 3 at 0: the row scheduled first comes last, by its priority.
C10_FourRowsInOrder ==
  \E p \in Procs :
    /\ Len(orch[p].marked) = 4
    /\ queue[orch[p].marked[1]].priority = 5 /\ queue[orch[p].marked[1]].scheduled_at = 0
    /\ queue[orch[p].marked[2]].priority = 5 /\ queue[orch[p].marked[2]].scheduled_at = 1
    /\ queue[orch[p].marked[3]].priority = 5 /\ queue[orch[p].marked[3]].scheduled_at = 2
    /\ queue[orch[p].marked[4]].priority = 3 /\ queue[orch[p].marked[4]].scheduled_at = 0
    /\ orch[p].marked[1] > orch[p].marked[2]

\* C11 (SpecList).  Pagination ceiling, as the specification states it: a
\* listing loop (past or upcoming) asks for another page only while fewer
\* than the ceiling's number of pages have been fetched, token or no token.
C11_PaginationCeiling ==
  \A p \in Procs :
    orch[p].pc \in {"list_past", "list_upcoming"} => orch[p].pageCount < maxPages

\* The 'error' events of a run the sink holds.
ErrorEvents(syncId) ==
  {k \in 1..Len(progress) :
     progress[k].sync_id = syncId /\ progress[k].update_type = "error"}

\* C12 (SpecAux).  Auxiliary fault tolerance: the failure path of an item is
\* entered only by a failed detail exchange or a failed upsert, whatever the
\* enrichment exchanges did; the sink holds no more 'error' events than items
\* that threw; and when the request is answered 200, every item with failed
\* enrichment exchanges whose detail fetch and upsert succeeded is
\* 'completed' and its webinar row is stored.
C12_AuxiliaryFaultTolerance ==
  \A p \in Procs :
    /\ orch[p].pc = "item_failed" =>
         orch[p].http # "ok" \/ orch[p].error = "upsert failed"
    /\ orch[p].pc \notin {"idle", "done"} =>
         Cardinality(ErrorEvents(orch[p].syncId)) <= Cardinality(orch[p].thrown)
    /\ Answered200(p) =>
         \A a \in orch[p].auxFailed :
           a.id \notin orch[p].thrown =>
             /\ queue[a.id].processing_status = "completed"
             /\ queue[a.id].retry_count = 0
             /\ \E i \in 1..Len(webinars) :
                  webinars[i].webinar_id = queue[a.id].webinar_id

\* C12: a past webinar all four of whose enrichment exchanges failed, two of
\* them by exception, is completed and stored with the defaults.
C12_AllEnrichmentFailed ==
  \E p \in Procs :
    /\ Answered200(p)
    /\ orch[p].thrown = {}
    /\ \E a \in orch[p].auxFailed :
         /\ a.n = 4
         /\ queue[a.id].processing_status = "completed"
         /\ queue[a.id].webinar_type = "past"
         /\ Len(webinars) = 1
         /\ webinars[1].additional_data.registrantCount = 0
         /\ webinars[1].additional_data.participantCount = 0
         /\ webinars[1].additional_data.polls = "unset"
         /\ webinars[1].additional_data.qa = "empty"
    /\ ErrorEvents(orch[p].syncId) = {}

\* C13 (Spec).  Crash-resumable processing, as the specification states it:
\* when a request that resumes an existing run has run to its end, every
\* queue row of the run is 'completed' or 'failed'.
C13_ResumeReachesTerminalStatus ==
  \A p \in Procs :
    (Answered200(p) /\ orch[p].resumeSyncId \in 1..Len(syncLogs)) =>
      \A i \in 1..Len(queue) :
        queue[i].sync_id = orch[p].syncId =>
          queue[i].processing_status \in {"completed", "failed"}

\* C15 (Spec).  Progress counters, as the specification states it: in every
\* sync_state row, processed_items is at most total_items.
C15_ProcessedWithinTotal ==
  \A i \in 1..Len(syncState) :
    syncState[i].processed_items <= syncState[i].total_items

\* C16 (SpecRun).  Failure response shape, as the specification states it: a
\* request that ended on a run-fatal failure (missing connection id,
\* credential failure, listing failure, queue insert failure, sync log insert
\* failure) is answered with a status outside 200..299 and a body that has a
\* success property, false, and an error message.
C16_FailureResponseShape ==
  \A p \in Procs :
    (orch[p].pc = "done" /\ orch[p].response.error # "") =>
      /\ orch[p].response.status \notin 200..299
      /\ "error" \in orch[p].response.fields
      /\ "success" \in orch[p].response.fields
      /\ ~orch[p].response.success

\* C17 (SpecRun).  Progress sink failures are swallowed: no response and no
\* item failure carries a sink failure, and a request all of whose failures
\* were failed appends to the sink ends as a request without failures does:
\* answered 200 with success = true, no item failed, every selected row
\* 'completed', the run 'completed'.
C17_SinkFailuresSwallowed ==
  \A p \in Procs :
    LET o == orch[p]
    IN /\ o.response.error # SinkError
       /\ o.error # SinkError
       /\ (o.pc = "done" /\ o.connectionId # "" /\ o.sinkFailed = faults) =>
            /\ o.response.status = 200
            /\ o.response.success
            /\ o.thrown = {}
            /\ o.failedCount = 0
            /\ o.processedCount = Len(o.queuedItems)
            /\ \A k \in 1..Len(o.queuedItems) :
                 queue[o.queuedItems[k].id].processing_status = "completed"
            /\ syncLogs[o.syncId].status = "completed"

\* C17 witness: a request that lost two events in the sink, one of them the
\* closing one, and still processed its items and was answered 200.
C17_TwoEventsLost ==
  \E p \in Procs :
    /\ orch[p].pc = "done"
    /\ orch[p].sinkFailed = 2
    /\ ~orch[p].published.stored
    /\ Len(orch[p].queuedItems) >= 2
    /\ orch[p].response.status = 200

\* C18 (SpecBurst).  Rate limiter timing, as the specification states it: when
\* five operations issued back to back through one limiter have all returned,
\* at least 1500 ms have passed since the first one started.
C18_FiveCallsTakeThreeWindows ==
  (Len(issued) = 5 /\ callers[1].pc = "idle") => limiter.now - issued[1] >= 1500

\* The callers that have passed waitForRateLimit and whose operation has not
\* been recorded yet.
InFlight == {c \in Callers : callers[c].pc \in {"run", "in_fn"}}

\* C19 (SpecLimiter).  Limiter atomicity, as the specification states it: the
\* check and the increment are one critical section, so callers that are past
\* the check together fit, with the calls already counted, in the per-second
\* limit.
C19_CheckAndIncrementAtomic ==
  Cardinality(InFlight) >= 2 =>
    limiter.callsPerSecond + Cardinality(InFlight) <= MAX_CALLS_PER_SECOND

\* C20 (SpecRetry).  429 handling in executeWithRateLimit, step by step: an
\* attempt that raises 429 sets blocked-until to now plus the retry-after
\* seconds (60 without a header) and suspends the caller until then; the
\* suspended caller does nothing but enter executeWithRateLimit again, not
\* before blocked-until, whatever the number of attempts made; and a result
\* is returned only by an attempt that did not raise 429.
C20_RetryAfter429 ==
  [][\A c \in Callers :
       /\ (callers[c].pc = "in_fn" /\ callers'[c].pc = "sleep_429") =>
            /\ limiter'.retryAfter - limiter'.now \in {1 * 1000, 60 * 1000}
            /\ callers'[c].wake = limiter'.retryAfter
            /\ callers'[c].retry = callers[c].retry + 1
            /\ callers'[c].result = ""
            /\ issued' = issued
       /\ (callers[c].pc = "sleep_429" /\ callers'[c] # callers[c]) =>
            /\ callers'[c].pc = "wait"
            /\ limiter'.now >= callers[c].wake
            /\ callers'[c].result = ""
       /\ (callers'[c].result # callers[c].result /\ callers'[c].result # "") =>
            /\ callers[c].pc = "in_fn"
            /\ callers'[c].pc = "idle"
            /\ callers'[c].result = "value"
            /\ limiter'.retryAfter = limiter.retryAfter]_vars

\* C20 witness: a call whose first three attempts raised 429, two of them
\* without a retry-after header, returned the value of the fourth.
C20_ThreeRetriesThenValue ==
  \E c \in Callers :
    /\ callers[c].pc = "idle"
    /\ callers[c].retry = 3
    /\ callers[c].result = "value"
    /\ Len(issued) = 4
    /\ issued[4] - issued[1] = 2 * 60000 + 1000

\* C14 (SpecLogs).  SyncRun status is monotonic, as the specification states
\* it: in no step does a run that is 'completed' or 'failed' change its
\* status, whichever function handles the request that names it.
C14_StatusMonotonic ==
  [][\A k \in 1..Len(syncLogs) :
       syncLogs[k].status \in {"completed", "failed"} =>
         syncLogs'[k].status = syncLogs[k].status]_vars

\* C21 (SpecLimiter).  Backoff window, as the specification states it: a
\* caller whose waitForRateLimit has returned, and whose operation is about to
\* start, is not before the limiter's blocked-until instant.
C21_NoStartBeforeBlockedUntil ==
  \A c \in Callers : callers[c].pc = "run" => limiter.now >= limiter.retryAfter

C23_DetailFailureItemFatal ==
  [][\A p \in Procs :
       LET o == orch[p]
           n == orch'[p]
       IN /\ (o.pc = "details" /\ n.http \in {"http429", "http500", "neterr"}) =>
               /\ n.pc = "item_failed"
               /\ n.error # ""
               /\ n.additionalData = NoAdditional
               /\ n.auxFailed = o.auxFailed
               /\ webinars' = webinars
               /\ queue' = queue
          /\ n.pc \in {"additional", "upsert"} => n.http = "ok"
          /\ (o.pc = "item_failed" /\ o.http # "ok" /\ n.pc \notin {"item_failed", "idle"}) =>
               /\ n.pc \in {"mark_processing", "complete"}
               /\ queue' = [queue EXCEPT ![Item(p).id] =
                              [@ EXCEPT !.processing_status = "failed",
                                        !.retry_count = Item(p).retry_count + 1,
                                        !.error_message = o.error]]
               /\ n.published.update_type = "error"
               /\ n.published.stored =>
                    progress' = Append(progress, [sync_id |-> o.syncId,
                                                  update_type |-> "error", pct |-> NoPct])
               /\ webinars' = webinars
    ]_vars

\* C23 witness: a request for one webinar whose detail exchange was answered
\* 500: the row is 'failed' with the message, the 'error' event is in the
\* sink, nothing was stored in zoom_webinars, and the request was answered 200.
C23_OnlyItemFailedOnDetails ==
  \E p \in Procs :
    /\ Answered200(p)
    /\ Len(orch[p].queuedItems) = 1
    /\ orch[p].detailCalls = SnapshotIds(orch[p])
    /\ orch[p].auxFailed = {}
    /\ queue[1].processing_status = "failed"
    /\ queue[1].error_message = "Failed to fetch webinar details"
    /\ ErrorEvents(orch[p].syncId) # {}
    /\ webinars = <<>>

\* C24 (SpecAux).  Auxiliary defaults, as the specification states it: the
\* bundle fetchAdditionalWebinarData returns holds, for every fetch of the
\* webinar's type, the fetched value or the default: a count (0 after a
\* failure) for registrants and participants, a list (empty after a failure)
\* for tracking sources, polls and Q&A.
C24_AuxiliaryDefaults ==
  \A p \in Procs :
    orch[p].pc = "upsert" =>
      LET a == orch[p].additionalData
          failed == \E f \in orch[p].auxFailed : f.id = Item(p).id /\ f.n = MaxAuxFaults
      IN /\ a.registrantCount >= 0
         /\ failed => a.registrantCount = 0
         /\ Item(p).webinar_type = "past" =>
              /\ a.participantCount >= 0 /\ a.avgAttendanceDuration >= 0
              /\ a.polls \in {"items", "empty"}
              /\ a.qa \in {"items", "empty"}
              /\ failed => /\ a.participantCount = 0 /\ a.avgAttendanceDuration = 0
                           /\ a.polls = "empty" /\ a.qa = "empty"
         /\ Item(p).webinar_type = "upcoming" =>
              a.trackingSources \in {"items", "empty"}

\* A sequence without a repeated element.
NoRepeat(seq) == \A i, j \in 1..Len(seq) : seq[i] = seq[j] => i = j

\* C25 (Spec).  No automatic item retry: in no step does a 'failed' queue row
\* change; retry_count changes only in the step that makes a row 'failed', by
\* one; and an invocation marks no row as processing twice and requests the
\* details of no row twice.
C25_NoAutomaticRetry ==
  [][/\ \A i \in 1..Len(queue) :
          /\ queue[i].processing_status = "failed" => queue'[i] = queue[i]
          /\ queue'[i].retry_count # queue[i].retry_count =>
               /\ queue'[i].processing_status = "failed"
               /\ queue'[i].retry_count = queue[i].retry_count + 1
     /\ \A p \in Procs : NoRepeat(orch'[p].marked) /\ NoRepeat(orch'[p].detailCalls)
    ]_vars

\* C25 witness: the first of two rows failed, the loop went on to the second
\* and the request was answered with the first still 'failed', tried once.
C25_FailedRowLeftBehind ==
  \E p \in Procs :
    /\ Answered200(p)
    /\ Len(orch[p].queuedItems) = 2
    /\ orch[p].detailCalls = SnapshotIds(orch[p])
    /\ queue[orch[p].queuedItems[1].id].processing_status = "failed"
    /\ queue[orch[p].queuedItems[1].id].retry_count = 1
    /\ queue[orch[p].queuedItems[2].id].processing_status = "completed"
    /\ queue[orch[p].queuedItems[2].id].retry_count = 0

\* C26 (Spec).  Sequential drain, as the specification states it: with one
\* invocation at a time, a run never has more than one queue row in status
\* 'processing'.
C26_OneRowProcessing ==
  \A s \in 1..Len(syncLogs) :
    Cardinality({i \in 1..Len(queue) :
                   queue[i].sync_id = s /\ queue[i].processing_status = "processing"}) <= 1

\* C27 (SpecPair).  Two instances draining one run double-claim: when both
\* have been answered 200, every row that both read as pending was marked
\* processing and had its details requested by each of them, and each of them
\* counted as processed every row of its batch that it did not fail on, the
\* other instance's claim on the row having stopped neither.
C27_DoubleClaim ==
  \A p \in Procs : \A q \in Procs \ {p} :
    (/\ Answered200(p) /\ Answered200(q)
     /\ orch[p].syncId = orch[q].syncId) =>
      /\ \A id \in Range(SnapshotIds(orch[p])) \cap Range(SnapshotIds(orch[q])) :
           /\ id \in Range(orch[p].marked) /\ id \in Range(orch[q].marked)
           /\ id \in Range(orch[p].detailCalls) /\ id \in Range(orch[q].detailCalls)
      /\ orch[p].processedCount =
           Cardinality(Range(SnapshotIds(orch[p])) \ orch[p].thrown)

\* Both instances have marked the same row, fetched it and upserted it, and
\* are each about to mark it completed.
C27_BothUpsertedOneRow ==
  \E p \in Procs : \E q \in Procs \ {p} :
    /\ orch[p].pc = "mark_completed" /\ orch[q].pc = "mark_completed"
    /\ orch[p].syncId = orch[q].syncId
    /\ Item(p).id = Item(q).id
    /\ Item(p).processing_status = "pending" /\ Item(q).processing_status = "pending"
    /\ Len(webinars) = 1

\* The queue rows of a run.
RowsOf(syncId) == {i \in 1..Len(queue) : queue[i].sync_id = syncId}

\* C28 (Spec).  Enumeration to queue: once a fresh run has listed and queued
\* its webinars and saved its state, the queue holds exactly one pending row
\* of the run per listed webinar id, and the saved total_items is the number
\* of the run's rows.
C28_OneRowPerListedId ==
  \A p \in Procs :
    (orch[p].pc = "select" /\ orch[p].resumeSyncId = 0) =>
      /\ \A w \in {orch[p].allWebinars[i].webinar_id : i \in 1..Len(orch[p].allWebinars)} :
           Cardinality({i \in RowsOf(orch[p].syncId) :
                          /\ queue[i].webinar_id = w
                          /\ queue[i].processing_status = "pending"}) = 1
      /\ \E i \in 1..Len(syncState) :
           /\ syncState[i].sync_id = orch[p].syncId
           /\ syncState[i].total_items = Cardinality(RowsOf(orch[p].syncId))

\* C29 (Spec).  Ownership by run: every queue row and every progress event
\* carries the id of a sync log that exists.
C29_OwnedByExistingRun ==
  /\ \A i \in 1..Len(queue) : queue[i].sync_id \in 1..Len(syncLogs)
  /\ \A i \in 1..Len(progress) : progress[i].sync_id \in 1..Len(syncLogs)

\* a <= b for percentages kept as <<numerator, denominator>>.
PctLeq(a, b) == a[1] * b[2] <= b[1] * a[2]

\* C30 (Spec).  Progress percentage is monotonic within a run: of any two
\* stored progress events of one run that carry a percentage, the later one's
\* percentage is at least the earlier one's, and every percentage lies in
\* 0..100.
C30_PercentageMonotonic ==
  /\ \A i \in 1..Len(progress) :
       progress[i].pct # NoPct =>
         PctLeq(Pct(0), progress[i].pct) /\ PctLeq(progress[i].pct, Pct(100))
  /\ \A i, j \in 1..Len(progress) :
       ( /\ i < j
         /\ progress[i].sync_id = progress[j].sync_id
         /\ progress[i].pct # NoPct /\ progress[j].pct # NoPct ) =>
         PctLeq(progress[i].pct, progress[j].pct)

\* a = b for percentages kept as <<numerator, denominator>>.
PctEq(a, b) == a[1] * b[2] = b[1] * a[2]

\* The rows of a run that are completed.
CompletedOf(rows, syncId) ==
  {i \in 1..Len(rows) : rows[i].sync_id = syncId /\ rows[i].processing_status = "completed"}

\* C31 (Spec).  Progress interpolation: the event published by the step that
\* follows a processed item carries 15 + 80 * completed / total, completed
\* being the number of the run's rows completed and total the number of the
\* run's rows; it is 95 exactly when every row of the run is completed.
C31_ProgressInterpolation ==
  [][\A p \in Procs :
       (orch[p].pc = "item_done" /\ orch'[p].pc \in {"mark_processing", "complete"}) =>
         LET completed == Cardinality(CompletedOf(queue', orch[p].syncId))
             total == Cardinality(RowsOf(orch[p].syncId))
         IN /\ PctEq(orch'[p].published.pct, percentage(completed, total))
            /\ PctEq(orch'[p].published.pct, Pct(95)) <=> completed = total]_vars

\* C32 (SpecFields).  Field fallback chain: the stored value is the settings
\* value whenever settings carries the field (false, 0 and the empty string
\* included), else the top-level value when the payload carries it, else the
\* default.
C32_FallbackChain ==
  fieldCase.result # "unmapped" =>
    fieldCase.result =
      IF fieldCase.hasSettings /\ fieldCase.nested # "undefined" THEN fieldCase.nested
      ELSE IF fieldCase.top # "undefined" THEN fieldCase.top
      ELSE FieldChains[fieldCase.field].default

\* C33 (SpecBatch).  Page ceiling of the batch sync: fetchWebinars issues at
\* most maxPages list requests whatever tokens the remote returns; it returns
\* the webinars of the pages it fetched, in order; and leaving the loop at
\* the ceiling with a continuation token in hand raises no error.
C33_PageCeiling ==
  /\ batch.pageCount <= maxPages
  /\ \A k \in 1..Len(batch.allWebinars) : batch.allWebinars[k] = RemoteWebinar(k)
  /\ batch.pc = "update_total" =>
       /\ batch.totalWebinars = Len(batch.allWebinars)
       /\ batch.error = NoError
       /\ batch.nextPageToken => batch.pageCount = maxPages

\* The tenth page came with a continuation token and the listing has ended
\* with the webinars of the pages fetched, without an error.
C33_StoppedAtCeiling ==
  /\ batch.pc = "update_total"
  /\ batch.pageCount = maxPages
  /\ batch.nextPageToken
  /\ Len(batch.allWebinars) = 2
  /\ batch.error = NoError

\* C34 (SpecBatch).  Failure handling of the batch sync: a request that has
\* created its sync log and is answered with a failure has left the log
\* 'failed' with the error's message, and the response has success false and
\* a status outside 200..299; no answered request leaves its log 'in_progress'.
C34_BatchFailureHandling ==
  (batch.pc = "done" /\ batch.syncLogId # 0) =>
    /\ syncLogs[batch.syncLogId].status # "in_progress"
    /\ batch.response.status # 200 =>
         /\ syncLogs[batch.syncLogId].status = "failed"
         /\ syncLogs[batch.syncLogId].error_message = batch.response.error
         /\ batch.response.error # ""
         /\ ~batch.response.success
         /\ batch.response.status \notin 200..299

\* The second batch's upsert failed: the log is 'failed' with the message
\* and the answer is a 500.
C34_SecondBatchFailed ==
  /\ batch.pc = "done"
  /\ batch.processedCount = batchSize
  /\ Len(batch.allWebinars) = batchSize + 1
  /\ syncLogs[batch.syncLogId].status = "failed"
  /\ syncLogs[batch.syncLogId].error_message = "Failed to save webinars"
  /\ batch.response.status = 500

\* C35 (SpecBatch).  The batch sync's processed_items never exceeds the number
\* of webinars the run has upserted so far.
C35_ProcessedWithinUpserted ==
  batch.syncLogId # 0 =>
    syncLogs[batch.syncLogId].processed_items <= batch.processedCount

\* C36 (Spec).  Every queue row that is 'completed' has a zoom_webinars row
\* for its webinar under the connection of its run.
C36_CompletedHasRecord ==
  \A i \in 1..Len(queue) :
    (queue[i].processing_status = "completed" /\ queue[i].sync_id \in 1..Len(syncLogs)) =>
      \E k \in 1..Len(webinars) :
        /\ webinars[k].webinar_id = queue[i].webinar_id
        /\ webinars[k].connection_id = syncLogs[queue[i].sync_id].connection_id

\* C37 (Spec).  Whenever a sync log is 'completed', no queue row of that run
\* is pending or processing.
C37_CompletedRunDrained ==
  \A s \in 1..Len(syncLogs) :
    syncLogs[s].status = "completed" =>
      \A i \in RowsOf(s) : queue[i].processing_status \notin {"pending", "processing"}

\* C38 (SpecLogs).  A request without connectionId is rejected before any
\* effect: no invocation is ever at work without a connection id; the step
\* that answers such a request leaves every table as it was, has issued no
\* remote call, and answers with a failure (500 {error} from the queue-based
\* sync, 400 {success: false, error} from the batch sync).
C38_RejectedBeforeAnyEffect ==
  [][/\ \A p \in Procs :
          /\ orch'[p].connectionId = "" => orch'[p].pc \in {"idle", "done"}
          /\ (orch'[p] # orch[p] /\ orch'[p].pc = "done" /\ orch'[p].connectionId = "") =>
               /\ UNCHANGED storeVars
               /\ orch'[p].response = errorResponse("Connection ID is required")
               /\ orch'[p].listCalls = 0
               /\ orch'[p].detailCalls = <<>>
               /\ orch'[p].syncId = 0
     /\ (batch' # batch /\ batch'.pc = "done"
           /\ batch'.response.error = "Missing connection ID") =>
          /\ UNCHANGED storeVars
          /\ batch'.syncLogId = 0
          /\ batch'.pageCount = 0
          /\ ~batch'.response.success
          /\ batch'.response.status = 400]_vars

\* A request without connectionId has been answered 500 while the store holds
\* the run of an earlier request.
C38_RejectedAfterARun ==
  \E p \in Procs :
    /\ orch[p].pc = "done"
    /\ orch[p].connectionId = ""
    /\ orch[p].response.status = 500
    /\ orch[p].response.error = "Connection ID is required"
    /\ Len(syncLogs) = 1
    /\ Len(progress) > 0

\* C39 (SpecLive).  Run termination: an invocation at work is eventually over
\* (answered, unless the host shut it down first), and whenever it has been
\* answered every row it marked 'processing' is 'completed' or 'failed'.
C39_RunTerminates ==
  /\ \A p \in Procs :
       (orch[p].pc \notin {"idle", "done"}) ~> (orch[p].pc \in {"idle", "done"})
  /\ [](\A p \in Procs :
          orch[p].pc = "done" =>
            \A i \in 1..Len(orch[p].marked) :
              queue[orch[p].marked[i]].processing_status \in {"completed", "failed"})

\* The request has been answered 200 after two list pages of one listing and
\* two webinars, one of which failed.
C39_AnsweredAfterDrain ==
  \E p \in Procs :
    /\ Answered200(p)
    /\ Len(orch[p].marked) = 2
    /\ orch[p].listCalls = 3
    /\ orch[p].failedCount = 1

====
